---- MODULE Spec2Model ----
(***************************************************************************)
(* Model of the traffic signal controller (core/traffic_logic.py) and of   *)
(* the lane snapshots it reads (core/detector.py).                          *)
(*                                                                         *)
(* One scheduler thread executes TrafficSignalController.run.  Every       *)
(* section the code runs under self.lock, every read of a lane processor   *)
(* (itself under that processor's lock) and every time.sleep is one step,  *)
(* so each state of the model is an instant at which a concurrent caller   *)
(* of get_all_states / force_emergency / stop can run.                     *)
(***************************************************************************)
EXTENDS Integers, Sequences, FiniteSets, TLC

\* ------------------------------------------------------------------ bounds
MaxCycles == 2        \* cycles the scheduler may complete before the model halts it
MaxQuietCycles == 5   \* the same cap in the emergency-free specification
MaxPublish == 2       \* snapshots the lane monitors publish in one behaviour
MaxPerClass == 5      \* per-class vehicle count of the snapshots drawn for the tier function
MaxMonitors == 1      \* lane processors of the detection system in the shutdown specification
MaxStopCalls == 2     \* times the system is stopped in the shutdown specification
MaxShutdownCycles == 1 \* cycles the scheduler may complete in the shutdown specification
MaxFrames == 2        \* frames a video source holds before it reports end-of-stream
MaxRows == 3          \* rows the traffic_logs table may hold in the database specification
MaxDays == 1          \* midnights that pass in the database specification

\* ------------------------------------------------------- program constants
NumLanes == 4
NumProcessors == 4
yellow_duration == 3
transition_delay == 2
emergency_duration == 45
fixed_time == 60
backoff_delay == 5

Lanes == 1..NumLanes
Classes == {"car", "bus", "truck", "motorcycle"}

\* force_emergency's documented argument range ("Lane to give priority (1-4)");
\* the dashboard's override buttons pass exactly these.
ForceArgs == 1..4
\* Arguments force_emergency accepts all the same (it checks nothing): a lane
\* of the junction, 0, a negative number and a number above 4
AnyForceArgs == {-1, 0, 2, 5}

\* Python's None for an optional lane is the empty tuple, a lane l is <<l>>.
None == <<>>
Some(l) == <<l>>
\* Truth value of an optional lane in `if x:` (None and 0 are false).
Truthy(x) == x # None /\ x[1] # 0

VARIABLES
    \* TrafficSignalController fields
    lane_states, current_lane, mode, running, force_emergency_lane,
    cycle_count, emergency_count, total_wait_time_saved,
    \* the scheduler thread: position and locals of run / handlers / transition
    pc, emergency_lane, all_data, lane, counts, ambulance, green_duration,
    from_lane, to_lane, reason,
    \* LaneVideoProcessor.latest_counts / is_ambulance, one slot per processor
    latest, published,
    \* MultiLaneDetectionSystem.processors: how many LaneVideoProcessor objects
    \* the detection system holds (processor p serves lane p)
    processors,
    \* MultiLaneDetectionSystem.start while a call of it is inside its loop: the
    \* index of the processor the loop turns to next (0: no call is in progress)
    starting,
    \* each LaneVideoProcessor thread: its position in run() and its running flag
    mon_pc, mon_running,
    \* each LaneVideoProcessor thread's locals: the capture it opened (cap), the
    \* index of the next frame of the source (pos), the result detect() returned
    mon_local,
    \* the thread that stops the system: controller.stop() and then
    \* detection_system.stop()
    caller,
    \* a thread that reads beside the threads above (the dashboard refresh):
    \* the call it is in, its position in that call and what it has read so far
    reader,
    \* DatabaseManager.log_traffic_cycle: number of calls, and the arguments of
    \* the last call that returned
    log_count, last_log,
    \* observation: how many of those calls raised
    log_failures,
    \* DatabaseManager: the rows of the traffic_logs table, each stamped with the
    \* day datetime.now gave when it was added, and the day it is now
    table, today,
    \* a second thread executing run() on the same controller, while it is not
    \* the one taking steps: its position and its locals
    other,
    \* observation: seconds the last finished time.sleep lasted
    waited,
    \* observation: counters at the call of the running handler
    entry,
    \* observation: the last completed phase (handler that ran to its end)
    last_phase,
    \* observation: the override request still to be acted on, kept as the data
    \* model words it: a call replaces it, the emergency check takes it
    owed,
    \* observation: the green durations of the completed normal cycles, in order
    served

ctrl == <<lane_states, current_lane, mode, running, force_emergency_lane,
          cycle_count, emergency_count, total_wait_time_saved>>
locals == <<emergency_lane, all_data, lane, counts, ambulance, green_duration,
            from_lane, to_lane, reason>>
env == <<latest, published, processors, mon_pc, mon_running, mon_local, caller, reader,
         other, starting>>
dblog == <<log_count, last_log, log_failures, table, today>>
obs == <<waited, entry, last_phase, owed, served>>
vars == <<ctrl, pc, locals, env, dblog, obs>>

\* ------------------------------------------------------------ pure helpers
RECURSIVE SumOver(_, _)
SumOver(d, keys) ==
    IF keys = {} THEN 0
    ELSE LET k == CHOOSE x \in keys : TRUE
         IN d[k] + SumOver(d, keys \ {k})

\* sum(counts.values())
SumValues(d) == SumOver(d, DOMAIN d)

Max(a, b) == IF a >= b THEN a ELSE b

\* dict assignment d[k] = v (adds the key when absent)
Put(d, k, v) == [x \in (DOMAIN d) \cup {k} |-> IF x = k THEN v ELSE d[x]]

ZeroCounts == [c \in Classes |-> 0]
EmptyCounts == [c \in {} |-> 0]
CountsOf(car, bus, truck, motorcycle) ==
    [c \in Classes |-> CASE c = "car" -> car
                         [] c = "bus" -> bus
                         [] c = "truck" -> truck
                         [] OTHER -> motorcycle]

\* snapshots the monitors publish under the main specification: 10 vehicles
\* (the slot of a monitor that has not published holds 0)
PublishCounts == {CountsOf(6, 2, 1, 1)}
\* snapshots the monitors publish under the emergency-free specification:
\* 3, 10 and 20 vehicles, one per tier of the timing function
QuietCounts == {CountsOf(3, 0, 0, 0), CountsOf(6, 2, 1, 1), CountsOf(12, 3, 3, 2)}
\* snapshots drawn for the tier function
WideCounts == [Classes -> 0..MaxPerClass]

calculate_green_duration_ge15(vehicle_count) ==
    IF vehicle_count >= 15 THEN 60
    ELSE IF vehicle_count >= 5 THEN 30
    ELSE 15

calculate_green_duration(vehicle_count) ==
    IF vehicle_count > 15 THEN 60
    ELSE IF vehicle_count >= 5 THEN 30
    ELSE 15

\* LaneVideoProcessor.get_data: the slot's counts and flag, read under its lock
get_data(p) == latest[p]

\* MultiLaneDetectionSystem.get_lane_data
get_lane_data_busy(lane_id) ==
    IF 1 <= lane_id /\ lane_id <= processors
    THEN get_data(lane_id)
    ELSE [counts |-> CountsOf(5, 0, 0, 0), ambulance |-> FALSE]

get_lane_data(lane_id) ==
    IF 1 <= lane_id /\ lane_id <= processors
    THEN get_data(lane_id)
    ELSE [counts |-> EmptyCounts, ambulance |-> FALSE]

\* One entry of the dict get_all_lane_data builds, for processor p
LaneEntry_first(p) ==
    LET d == get_data(1)
    IN [lane_id |-> p, counts |-> d.counts, ambulance |-> d.ambulance,
        total |-> SumValues(d.counts)]

LaneEntry(p) ==
    LET d == get_data(p)
    IN [lane_id |-> p, counts |-> d.counts, ambulance |-> d.ambulance,
        total |-> SumValues(d.counts)]

\* The for loop of check_emergency_conditions over all_data.items(), a dict
\* iterated in insertion order: the first entry whose ambulance flag is set.
RECURSIVE FirstAmbulance(_)
FirstAmbulance_last(items) ==
    LET hits == {i \in 1..Len(items) : items[i].ambulance}
    IN IF hits = {} THEN None
       ELSE Some(items[CHOOSE i \in hits : \A j \in hits : j <= i].lane_id)

FirstAmbulance(items) ==
    IF items = <<>> THEN None
    ELSE IF Head(items).ambulance THEN Some(Head(items).lane_id)
    ELSE FirstAmbulance(Tail(items))

\* get_all_states: a copy of lane_states taken under the lock
get_all_states == lane_states

RECURSIVE Gcd(_, _)
Gcd(a, b) == IF b = 0 THEN a ELSE Gcd(b, a % b)

\* Python's a / b on two ints, b > 0: the quotient as a fraction in lowest
\* terms (the float returned is the double nearest to it)
TrueDiv_floor(a, b) == [num |-> a \div b, den |-> 1]

TrueDiv(a, b) == [num |-> a \div Gcd(a, b), den |-> b \div Gcd(a, b)]

\* get_statistics
get_statistics ==
    [total_cycles |-> cycle_count,
     emergency_events |-> emergency_count,
     wait_time_saved |-> total_wait_time_saved,
     current_lane |-> current_lane,
     mode |-> mode,
     avg_wait_saved_per_cycle |->
        IF cycle_count > 0 THEN TrueDiv(total_wait_time_saved, cycle_count)
        ELSE [num |-> 0, den |-> 1]]

NoEntry == [cycle_count |-> -1, emergency_count |-> -1, log_count |-> -1,
            total_wait_time_saved |-> -1]
NoLog == [lane_id |-> 0, vehicle_counts |-> EmptyCounts, ambulance_detected |-> FALSE,
          green_duration |-> 0, signal_mode |-> "NONE"]
NoPhase == [kind |-> "none", lane |-> 0]

ClearLocals ==
    /\ emergency_lane' = None
    /\ all_data' = <<>>
    /\ lane' = 0
    /\ counts' = EmptyCounts
    /\ ambulance' = FALSE
    /\ green_duration' = 0
    /\ from_lane' = 0
    /\ to_lane' = 0
    /\ reason' = "none"

\* The thread that stops the system, before it has called anything: `at` is its
\* position, `i` the processor it joins, `mid` whether its stop began with a
\* monitor mid-detection and the scheduler mid-wait, `calls` the stop sequences
\* it began, `abandoned` whether a join of the current sequence timed out
NoCaller == [at |-> "idle", i |-> 0, mid |-> FALSE, calls |-> 0, abandoned |-> FALSE]

\* A processor's locals before run() (NoCapture) and inside the loop of a
\* thread whose source opened (OpenCapture)
NoResult == [counts |-> EmptyCounts, ambulance |-> FALSE]
NoCapture == [cap |-> "none", pos |-> 0, result |-> NoResult]
OpenCapture == [cap |-> "open", pos |-> 0, result |-> NoResult]

\* A thread that start() has not created yet
NoThread == [pc |-> "idle", emergency_lane |-> None, all_data |-> <<>>, lane |-> 0,
             counts |-> EmptyCounts, ambulance |-> FALSE, green_duration |-> 0,
             from_lane |-> 0, to_lane |-> 0, reason |-> "none"]

\* The reading thread outside any call
NoReader == [op |-> "none", i |-> 0, map |-> <<>>, instants |-> {}, got |-> <<>>]

\* -------------------------------------------------------------------- Init
\* TrafficSignalController.__init__, the slots of freshly built processors and
\* an empty log
Constructed ==
    /\ lane_states = [l \in Lanes |-> "RED"]
    /\ current_lane = 1
    /\ mode = "NORMAL"
    /\ running = FALSE
    /\ force_emergency_lane = None
    /\ cycle_count = 0
    /\ emergency_count = 0
    /\ total_wait_time_saved = 0
    /\ pc = "idle"
    /\ emergency_lane = None
    /\ all_data = <<>>
    /\ lane = 0
    /\ counts = EmptyCounts
    /\ ambulance = FALSE
    /\ green_duration = 0
    /\ from_lane = 0
    /\ to_lane = 0
    /\ reason = "none"
    /\ latest = [p \in 1..NumProcessors |-> [counts |-> ZeroCounts, ambulance |-> FALSE]]
    /\ published = 0
    /\ log_count = 0
    /\ last_log = NoLog
    /\ waited = 0
    /\ entry = NoEntry
    /\ last_phase = NoPhase
    /\ owed = None
    /\ log_failures = 0
    /\ table = <<>>
    /\ today = 0
    /\ other = NoThread
    /\ starting = 0
    /\ served = <<>>

\* The controller constructed beside a detection system of four processors that
\* has been started and whose threads are in their loops
Init ==
    /\ Constructed
    /\ processors = NumProcessors
    /\ mon_pc = [p \in 1..NumProcessors |-> "loop"]
    /\ mon_running = [p \in 1..NumProcessors |-> TRUE]
    /\ mon_local = [p \in 1..NumProcessors |-> OpenCapture]
    /\ caller = NoCaller
    /\ reader = NoReader

\* ------------------------------------------------- callers of the controller
\* TrafficSignalController.start: a thread is created that executes run()
start ==
    /\ pc = "idle"
    /\ pc' = "run_begin"
    /\ UNCHANGED <<ctrl, locals, env, dblog, obs>>

\* TrafficSignalController.stop: the value it stores in self.running
controller_stop(flag) == FALSE

\* TrafficSignalController.stop
stop ==
    /\ running' = controller_stop(running)
    /\ UNCHANGED <<lane_states, current_lane, mode, force_emergency_lane,
                   cycle_count, emergency_count, total_wait_time_saved,
                   pc, locals, env, dblog, obs>>

\* The assignment force_emergency makes to the override slot under the lock
SetOverride_queue(slot, lane_id) == slot \o Some(lane_id)

SetOverride(slot, lane_id) == Some(lane_id)

\* The positions at which the scheduler thread is inside a `with self.lock`
\* block, having entered it and not yet left it
LockedPcs_waits ==
    {"run_init_locked", "check_locked", "transition_locked", "yellow_locked", "red_locked",
     "yellow", "red"}

LockedPcs ==
    {"run_init_locked", "check_locked", "transition_locked", "yellow_locked", "red_locked"}

\* self.lock of the controller is not held by the scheduler thread
SchedulerLockFree == pc \notin LockedPcs

\* TrafficSignalController.force_emergency(lane_id)
force_emergency(lane_id) ==
    /\ SchedulerLockFree
    /\ reader.op # "states_locked"
    /\ force_emergency_lane' = SetOverride(force_emergency_lane, lane_id)
    /\ owed' = Some(lane_id)
    /\ UNCHANGED <<lane_states, current_lane, mode, running,
                   cycle_count, emergency_count, total_wait_time_saved,
                   pc, locals, env, dblog, waited, entry, last_phase, served>>

\* What a reading thread has seen of the slots since its call began: every
\* content the slots had at some instant of the call
Observe(r, slots) ==
    IF r.op = "all" THEN [r EXCEPT !.instants = @ \cup {slots}] ELSE r

\* LaneVideoProcessor.run, the "Update state" section: the result of one
\* detection replaces the slot of processor p
MonitorPublish(p, c, a) ==
    /\ p <= processors
    /\ mon_pc[p] = "loop" /\ mon_running[p]
    /\ published < MaxPublish
    /\ latest' = [latest EXCEPT ![p] = [counts |-> c, ambulance |-> a]]
    /\ published' = published + 1
    /\ reader' = Observe(reader, latest')
    /\ UNCHANGED <<ctrl, pc, locals, dblog, obs, other, starting, processors, mon_local, mon_pc, mon_running, caller>>

\* A lane processor reports an ambulance for the first time; no processor
\* reports the end of one, so a lane that has reported an ambulance reports it
\* from then on
AmbulanceReport(p) ==
    /\ ~latest[p].ambulance
    /\ MonitorPublish(p, ZeroCounts, TRUE)

\* ------------------------------------------------------ the scheduler thread
\* run: self.running = True
RunBegin ==
    /\ pc = "run_begin"
    /\ running' = TRUE
    /\ pc' = "run_init"
    /\ UNCHANGED <<lane_states, current_lane, mode, force_emergency_lane,
                   cycle_count, emergency_count, total_wait_time_saved,
                   locals, env, dblog, obs>>

\* The signal table run() leaves when it initialises
InitialStates_reset(states) == [l \in Lanes |-> IF l = 1 THEN "GREEN" ELSE "RED"]

InitialStates(states) == Put(states, 1, "GREEN")

\* run: "Initialize: Set Lane 1 to GREEN"
RunInitAt(at) ==
    /\ pc = at
    /\ lane_states' = InitialStates(lane_states)
    /\ current_lane' = 1
    /\ pc' = "loop"
    /\ UNCHANGED <<mode, running, force_emergency_lane,
                   cycle_count, emergency_count, total_wait_time_saved,
                   locals, env, dblog, obs>>

\* ... entered from the statement before it, the lock taken within the step
RunInit == RunInitAt("run_init")

\* ... as the step of a thread that already holds the lock
RunInitLocked == RunInitAt("run_init_locked")

\* run: the test of `while self.running`; cap bounds the cycles of the model
LoopTest(cap) ==
    /\ pc = "loop"
    /\ IF running
       THEN cycle_count < cap /\ pc' = "check"
       ELSE pc' = "stopped"
    /\ UNCHANGED <<ctrl, locals, env, dblog, obs>>

\* What the locked section of check_emergency_conditions leaves in the slot
\* after returning the pending lane
SlotAfterRead_keep(slot) == slot

SlotAfterRead(slot) == None

\* The lane the locked section of check_emergency_conditions returns when the
\* slot holds a request: `lane = self.force_emergency_lane`
PendingLane_active(slot) == Some(current_lane)

PendingLane(slot) == slot

\* check_emergency_conditions: "Check manual override first", under the lock
CheckOverrideAt(at) ==
    /\ pc = at
    /\ IF Truthy(force_emergency_lane)
       THEN /\ emergency_lane' = PendingLane(force_emergency_lane)
            /\ force_emergency_lane' = SlotAfterRead(force_emergency_lane)
            /\ owed' = None
            /\ pc' = "dispatch"
       ELSE /\ UNCHANGED <<emergency_lane, force_emergency_lane, owed>>
            /\ pc' = "scan"
    /\ UNCHANGED <<lane_states, current_lane, mode, running,
                   cycle_count, emergency_count, total_wait_time_saved,
                   all_data, lane, counts, ambulance, green_duration,
                   from_lane, to_lane, reason,
                   env, dblog, waited, entry, last_phase, served>>

\* ... entered from the statement before it, the lock taken within the step
CheckOverride == CheckOverrideAt("check")

\* ... as the step of a thread that already holds the lock
CheckOverrideLocked == CheckOverrideAt("check_locked")

\* get_all_lane_data: one iteration of `for p in self.processors`
ScanLane ==
    /\ pc = "scan"
    /\ Len(all_data) < processors
    /\ all_data' = Append(all_data, LaneEntry(Len(all_data) + 1))
    /\ UNCHANGED <<ctrl, pc, emergency_lane, lane, counts, ambulance, green_duration,
                   from_lane, to_lane, reason, env, dblog, obs>>

\* check_emergency_conditions: "Check all lanes for ambulances"
ScanResult ==
    /\ pc = "scan"
    /\ Len(all_data) = processors
    /\ emergency_lane' = FirstAmbulance(all_data)
    /\ all_data' = <<>>
    /\ pc' = "dispatch"
    /\ UNCHANGED <<ctrl, lane, counts, ambulance, green_duration,
                   from_lane, to_lane, reason, env, dblog, obs>>

\* run: `if emergency_lane:` sets the mode and calls the handler
Dispatch ==
    /\ pc = "dispatch"
    /\ IF Truthy(emergency_lane)
       THEN mode' = "EMERGENCY" /\ pc' = "emergency"
       ELSE mode' = "NORMAL" /\ pc' = "normal"
    /\ entry' = [cycle_count |-> cycle_count, emergency_count |-> emergency_count,
                 log_count |-> log_count,
                 total_wait_time_saved |-> total_wait_time_saved]
    /\ UNCHANGED <<lane_states, current_lane, running, force_emergency_lane,
                   cycle_count, emergency_count, total_wait_time_saved,
                   locals, env, dblog, waited, last_phase, served, owed>>

\* DatabaseManager.log_traffic_cycle, `session.add(log); session.commit()`: the
\* table with a row of the arguments, stamped with the current day
AddRow(rows, lane_id, vehicle_counts, ambulance_detected, duration, signal_mode) ==
    Append(rows, [day |-> today, lane_id |-> lane_id,
                  vehicle_counts |-> vehicle_counts,
                  ambulance_detected |-> ambulance_detected,
                  green_duration |-> duration,
                  signal_mode |-> signal_mode])

\* DatabaseManager.log_traffic_cycle as the scheduler calls it, the commit
\* succeeding: the call and its arguments are recorded and the row is added
LogCycle_twice(lane_id, vehicle_counts, ambulance_detected, duration, signal_mode) ==
    /\ log_count' = log_count + 2
    /\ last_log' = [lane_id |-> lane_id, vehicle_counts |-> vehicle_counts,
                    ambulance_detected |-> ambulance_detected,
                    green_duration |-> duration, signal_mode |-> signal_mode]
    /\ log_failures' = log_failures
    /\ table' = AddRow(AddRow(table, lane_id, vehicle_counts, ambulance_detected,
                              duration, signal_mode),
                       lane_id, vehicle_counts, ambulance_detected, duration, signal_mode)
    /\ UNCHANGED today

LogCycle(lane_id, vehicle_counts, ambulance_detected, duration, signal_mode) ==
    /\ log_count' = log_count + 1
    /\ last_log' = [lane_id |-> lane_id, vehicle_counts |-> vehicle_counts,
                    ambulance_detected |-> ambulance_detected,
                    green_duration |-> duration, signal_mode |-> signal_mode]
    /\ log_failures' = log_failures
    /\ table' = AddRow(table, lane_id, vehicle_counts, ambulance_detected,
                       duration, signal_mode)
    /\ UNCHANGED today

\* The same call when session.add or session.commit raises: log_traffic_cycle
\* prints the error, rolls the session back and returns; no row is added and
\* the handler goes on as after a stored row
LogCycleRolledBack(lane_id, vehicle_counts, ambulance_detected, duration, signal_mode) ==
    /\ log_count' = log_count + 1
    /\ last_log' = [lane_id |-> lane_id, vehicle_counts |-> vehicle_counts,
                    ambulance_detected |-> ambulance_detected,
                    green_duration |-> duration, signal_mode |-> signal_mode]
    /\ log_failures' = log_failures
    /\ UNCHANGED <<table, today>>

\* The same call when log_traffic_cycle raises with no row stored
\* (self.Session() raises, or the rollback or the close that follows a failed
\* commit raises): the except clause of the handler is entered
LogCycleRaises(lane_id, vehicle_counts, ambulance_detected, duration, signal_mode) ==
    /\ log_count' = log_count + 1
    /\ last_log' = last_log
    /\ log_failures' = log_failures + 1
    /\ UNCHANGED <<table, today>>

\* The same call when session.close() of the finally clause raises after the
\* commit: the row is in the table and the except clause of the handler is
\* entered all the same
LogCycleRaisesStored(lane_id, vehicle_counts, ambulance_detected, duration, signal_mode) ==
    /\ log_count' = log_count + 1
    /\ last_log' = last_log
    /\ log_failures' = log_failures + 1
    /\ table' = AddRow(table, lane_id, vehicle_counts, ambulance_detected,
                       duration, signal_mode)
    /\ UNCHANGED today

\* The ways a call of log_traffic_cycle can end: the row is committed and the
\* call returns, the commit fails and is rolled back inside the method, the
\* method raises with no row stored, or it raises after the row was committed
LogOutcomes == {"stored", "rolled_back", "raised", "raised_stored"}

\* The outcomes that enter the except clause around the call
LogRaised(outcome) == outcome \in {"raised", "raised_stored"}

\* The try/except around the log call, for each way the call can end
LogCall_skip(outcome, lane_id, vehicle_counts, ambulance_detected, duration, signal_mode) ==
    UNCHANGED <<log_count, last_log, log_failures, table, today>>

LogCall(outcome, lane_id, vehicle_counts, ambulance_detected, duration, signal_mode) ==
    CASE outcome = "stored" ->
           LogCycle(lane_id, vehicle_counts, ambulance_detected, duration, signal_mode)
      [] outcome = "rolled_back" ->
           LogCycleRolledBack(lane_id, vehicle_counts, ambulance_detected, duration,
                              signal_mode)
      [] outcome = "raised_stored" ->
           LogCycleRaisesStored(lane_id, vehicle_counts, ambulance_detected, duration,
                                signal_mode)
      [] OTHER ->
           LogCycleRaises(lane_id, vehicle_counts, ambulance_detected, duration, signal_mode)

\* Where a handler is after `except Exception as e: print(...)` around its log
\* call: at the statement that follows, which is where a successful call leaves it
LogFailureTarget(next) == next

\* `self.cycle_count += 1`, the last statement of either handler
CountCycle_back(n) == n - 1

CountCycle(n) == n + 1

\* transition_to_lane, "Yellow phase for current lane": the state the lane that
\* was green is given first
AfterGreen_red(state) == "RED"

AfterGreen(state) == "YELLOW"

\* handle_normal_cycle: `next_lane = (lane % 4) + 1`
NextLane_same(l) == l

NextLane(l) == (l % NumLanes) + 1

\* handle_normal_cycle, "Check for ambulance in current lane": the emergency
\* counter after the check
CountActiveAmbulance_skip(flag, n) == n

CountActiveAmbulance(flag, n) == IF flag THEN n + 1 ELSE n

\* handle_normal_cycle, "Calculate wait time saved vs fixed 60s": the running
\* total after a cycle of the given green duration has been accounted
SavedAfter_overwrite(total, duration) == Max(0, fixed_time - duration)

SavedAfter(total, duration) == total + Max(0, fixed_time - duration)

\* handle_normal_cycle, its first statements: the active lane and that lane's
\* snapshot are read into the handler's locals
NormalRead ==
    /\ pc = "normal"
    /\ LET d == get_lane_data(current_lane)
       IN /\ lane' = current_lane
          /\ counts' = d.counts
          /\ ambulance' = d.ambulance
    /\ pc' = "normal_flag"
    /\ UNCHANGED <<ctrl, emergency_lane, all_data, green_duration,
                   from_lane, to_lane, reason, env, dblog, obs>>

\* handle_normal_cycle, `if ambulance:` and `self.mode = SignalMode.EMERGENCY`
NormalFlag ==
    /\ pc = "normal_flag"
    /\ IF ambulance
       THEN mode' = "EMERGENCY" /\ pc' = "normal_count"
       ELSE mode' = mode /\ pc' = "normal_timing"
    /\ UNCHANGED <<lane_states, current_lane, running, force_emergency_lane,
                   cycle_count, emergency_count, total_wait_time_saved,
                   locals, env, dblog, obs>>

\* handle_normal_cycle, `self.emergency_count += 1` of the same branch
NormalCount ==
    /\ pc = "normal_count"
    /\ emergency_count' = CountActiveAmbulance(ambulance, emergency_count)
    /\ pc' = "normal_timing"
    /\ UNCHANGED <<lane_states, current_lane, mode, running, force_emergency_lane,
                   cycle_count, total_wait_time_saved,
                   locals, env, dblog, obs>>

\* handle_normal_cycle: compute the green time and account the wait saved
NormalTiming ==
    /\ pc = "normal_timing"
    /\ LET duration == calculate_green_duration(SumValues(counts))
       IN /\ green_duration' = duration
          /\ total_wait_time_saved' = SavedAfter(total_wait_time_saved, duration)
    /\ pc' = "normal_log"
    /\ UNCHANGED <<lane_states, current_lane, mode, running, force_emergency_lane,
                   cycle_count, emergency_count,
                   emergency_lane, all_data, lane, counts, ambulance,
                   from_lane, to_lane, reason, env, dblog, obs>>

\* handle_normal_cycle, "Log to database"; the thread then sleeps for
\* green_duration
NormalLogCall(outcome) ==
    /\ pc = "normal_log"
    /\ LogCall(outcome, lane, counts, ambulance, green_duration, mode)
    /\ pc' = IF LogRaised(outcome) THEN LogFailureTarget("normal_green") ELSE "normal_green"
    /\ UNCHANGED <<ctrl, locals, env, obs>>

\* ... with a log call that stores its row
NormalLog == NormalLogCall("stored")

\* ... with a log call whose commit fails inside log_traffic_cycle
NormalLogRolledBack == NormalLogCall("rolled_back")

\* ... with a log call that raises, no row stored
NormalLogFails == NormalLogCall("raised")

\* ... with a log call that raises after its row was committed
NormalLogFailsStored == NormalLogCall("raised_stored")

\* Where handle_normal_cycle goes when time.sleep(green_duration) returns:
\* always into the transition to the next lane (the sleep is never cut short)
NormalGreenEnd ==
    /\ pc = "normal_green"
    /\ waited' = green_duration
    /\ from_lane' = lane
    /\ to_lane' = NextLane(lane)
    /\ reason' = "Normal Cycle"
    /\ pc' = "transition"
    /\ UNCHANGED <<ctrl, emergency_lane, all_data, lane, counts, ambulance, green_duration,
                   env, dblog, entry, last_phase, served, owed>>

\* transition_to_lane: "Yellow phase for current lane", then sleep(yellow_duration)
TransitionYellowAt(at) ==
    /\ pc = at
    /\ lane_states' = Put(lane_states, from_lane, AfterGreen(lane_states[from_lane]))
    /\ pc' = "yellow"
    /\ UNCHANGED <<current_lane, mode, running, force_emergency_lane,
                   cycle_count, emergency_count, total_wait_time_saved,
                   locals, env, dblog, obs>>

\* ... entered from the statement before it, the lock taken within the step
TransitionYellow == TransitionYellowAt("transition")

\* ... as the step of a thread that already holds the lock
TransitionYellowLocked == TransitionYellowAt("transition_locked")

\* transition_to_lane: "Red phase with delay", then sleep(transition_delay)
TransitionRedAt(at) ==
    /\ pc = at
    /\ waited' = yellow_duration
    /\ lane_states' = Put(lane_states, from_lane, "RED")
    /\ pc' = "red"
    /\ UNCHANGED <<current_lane, mode, running, force_emergency_lane,
                   cycle_count, emergency_count, total_wait_time_saved,
                   locals, env, dblog, entry, last_phase, served, owed>>

\* ... entered from the statement before it, the lock taken within the step
TransitionRed == TransitionRedAt("yellow")

\* ... as the step of a thread that already holds the lock
TransitionRedLocked == TransitionRedAt("yellow_locked")

\* transition_to_lane: the value `self.current_lane = to_lane` stores
ActiveAfterTransition_stale(from, to) == from

ActiveAfterTransition_pending(from, to) ==
    IF Truthy(force_emergency_lane) THEN force_emergency_lane[1] ELSE to

ActiveAfterTransition(from, to) == to

\* transition_to_lane: "Green for next lane"; control returns to the caller
TransitionGreenAt(at) ==
    /\ pc = at
    /\ waited' = transition_delay
    /\ lane_states' = Put(lane_states, to_lane, "GREEN")
    /\ current_lane' = ActiveAfterTransition(from_lane, to_lane)
    /\ pc' = IF reason = "Normal Cycle" THEN "normal_reset" ELSE "emergency_read"
    /\ UNCHANGED <<mode, running, force_emergency_lane,
                   cycle_count, emergency_count, total_wait_time_saved,
                   locals, env, dblog, entry, last_phase, served, owed>>

\* ... entered from the statement before it, the lock taken within the step
TransitionGreen == TransitionGreenAt("red")

\* ... as the step of a thread that already holds the lock
TransitionGreenLocked == TransitionGreenAt("red_locked")

\* handle_normal_cycle: "Reset to normal mode"
NormalReset ==
    /\ pc = "normal_reset"
    /\ mode' = "NORMAL"
    /\ pc' = "normal_end"
    /\ UNCHANGED <<lane_states, current_lane, running, force_emergency_lane,
                   cycle_count, emergency_count, total_wait_time_saved,
                   locals, env, dblog, obs>>

\* handle_normal_cycle: count the cycle, return
NormalEnd ==
    /\ pc = "normal_end"
    /\ mode' = mode
    /\ cycle_count' = CountCycle(cycle_count)
    /\ last_phase' = [kind |-> "normal", lane |-> lane]
    /\ served' = Append(served, green_duration)
    /\ entry' = NoEntry
    /\ ClearLocals
    /\ pc' = "loop"
    /\ UNCHANGED <<lane_states, current_lane, running, force_emergency_lane,
                   emergency_count, total_wait_time_saved,
                   env, dblog, waited, owed>>

\* handle_emergency_override: the test `current == emergency_lane`
SameLane_never(current, target) == FALSE

SameLane(current, target) == current = target

\* handle_emergency_override up to its call of transition_to_lane
EmergencyBegin ==
    /\ pc = "emergency"
    /\ IF SameLane(current_lane, emergency_lane[1])
       THEN /\ pc' = "loop"
            /\ entry' = NoEntry
            /\ ClearLocals
            /\ UNCHANGED emergency_count
       ELSE /\ emergency_count' = emergency_count + 1
            /\ from_lane' = current_lane
            /\ to_lane' = emergency_lane[1]
            /\ reason' = "AMBULANCE DETECTED"
            /\ pc' = "transition"
            /\ UNCHANGED <<entry, emergency_lane, all_data, lane, counts, ambulance,
                           green_duration>>
    /\ UNCHANGED <<lane_states, current_lane, mode, running, force_emergency_lane,
                   cycle_count, total_wait_time_saved,
                   env, dblog, waited, last_phase, served, owed>>

\* handle_emergency_override after the transition, "Get counts for logging"
EmergencyRead ==
    /\ pc = "emergency_read"
    /\ counts' = get_lane_data(emergency_lane[1]).counts
    /\ pc' = "emergency_log"
    /\ UNCHANGED <<ctrl, emergency_lane, all_data, lane, ambulance, green_duration,
                   from_lane, to_lane, reason, env, dblog, obs>>

\* handle_emergency_override, "Log emergency event"; the thread then sleeps
\* for emergency_duration
EmergencyLogCall(outcome) ==
    /\ pc = "emergency_log"
    /\ LogCall(outcome, emergency_lane[1], counts, TRUE, emergency_duration, "EMERGENCY")
    /\ pc' = IF LogRaised(outcome) THEN LogFailureTarget("emergency_green")
             ELSE "emergency_green"
    /\ UNCHANGED <<ctrl, locals, env, obs>>

\* ... with a log call that stores its row
EmergencyLog == EmergencyLogCall("stored")

\* ... with a log call whose commit fails inside log_traffic_cycle
EmergencyLogRolledBack == EmergencyLogCall("rolled_back")

\* ... with a log call that raises, no row stored
EmergencyLogFails == EmergencyLogCall("raised")

\* ... with a log call that raises after its row was committed
EmergencyLogFailsStored == EmergencyLogCall("raised_stored")

\* What handle_emergency_override leaves in total_wait_time_saved: the handler
\* has no statement that assigns it
SavedAfterEmergency_credit(total) == total + Max(0, fixed_time - emergency_duration)

SavedAfterEmergency(total) == total

\* handle_emergency_override when time.sleep(emergency_duration) returns
EmergencyEnd ==
    /\ pc = "emergency_green"
    /\ waited' = emergency_duration
    /\ cycle_count' = CountCycle(cycle_count)
    /\ total_wait_time_saved' = SavedAfterEmergency(total_wait_time_saved)
    /\ last_phase' = [kind |-> "emergency", lane |-> emergency_lane[1]]
    /\ entry' = NoEntry
    /\ ClearLocals
    /\ pc' = "loop"
    /\ UNCHANGED <<lane_states, current_lane, mode, running, force_emergency_lane,
                   emergency_count,
                   env, dblog, owed, served>>

\* The positions at which the scheduler thread calls the detection system:
\* get_all_lane_data in the emergency check, get_lane_data in either handler
DetectionCallPcs == {"scan", "normal", "emergency_read"}

\* run: where an exception raised inside the try block of the loop leaves the
\* thread: in the except clause, which prints the error and sleeps
AfterException_exit == "stopped"

AfterException == "backoff"

\* A call of the detection system raises: the handler and the iteration are
\* abandoned where they stand
DetectionRaises ==
    /\ pc \in DetectionCallPcs
    /\ pc' = AfterException
    /\ entry' = NoEntry
    /\ ClearLocals
    /\ UNCHANGED <<ctrl, env, dblog, waited, last_phase, served, owed>>

\* run: `time.sleep(5)` of the except clause returns; back to the loop test
BackoffEnd ==
    /\ pc = "backoff"
    /\ waited' = backoff_delay
    /\ pc' = "loop"
    /\ UNCHANGED <<ctrl, locals, env, dblog, entry, last_phase, served, owed>>

\* The positions at which the scheduler thread is inside a time.sleep: the green
\* wait of either handler and the two waits of transition_to_lane
WaitPcs == {"normal_green", "yellow", "red", "emergency_green"}

\* The statements of the scheduler thread that begin with `with self.lock:`
\* (for "yellow" and "red", once the sleep before them has returned)
LockSites == {"run_init", "check", "transition", "yellow", "red"}

\* The scheduler thread inside the block that begins at a lock site
LockedPc(site) ==
    CASE site = "run_init" -> "run_init_locked"
      [] site = "check" -> "check_locked"
      [] site = "transition" -> "transition_locked"
      [] site = "yellow" -> "yellow_locked"
      [] OTHER -> "red_locked"

\* The scheduler thread enters a `with self.lock:` block: the lock is free and
\* the thread takes it
LockEnter ==
    /\ pc \in LockSites
    /\ reader.op # "states_locked"
    /\ pc' = LockedPc(pc)
    /\ UNCHANGED <<ctrl, locals, env, dblog, obs>>

\* ------------------------------------------- the lane processor threads
\* threading.Thread.is_alive of processor p: its thread was started and has
\* not ended
Alive(p) == mon_pc[p] \in {"started", "loop", "detect", "publish", "writing"}

\* MultiLaneDetectionSystem.start, one turn of `for p in self.processors`:
\* a processor that is alive is passed over; p.start() on one that was never
\* started hands over to the new thread, and the loop goes on once that
\* thread runs; p.start() on a thread that has ended raises RuntimeError, which
\* leaves the call with the processors after it not started
StartTurn(i) ==
    /\ i <= processors
    /\ mon_pc' = IF mon_pc[i] = "new" THEN [mon_pc EXCEPT ![i] = "started"] ELSE mon_pc
    /\ starting' = IF mon_pc[i] \in {"done", "crashed"} \/ i = processors THEN 0 ELSE i + 1
    /\ UNCHANGED <<ctrl, pc, locals, latest, published, other, processors, mon_local, reader,
                   mon_running, caller, dblog, obs>>

\* MultiLaneDetectionSystem.start: the call with the first turn of its loop,
\* or the next turn of the call that is in progress
detection_start == StartTurn(IF starting = 0 THEN 1 ELSE starting)

\* LaneVideoProcessor.run: `self.running = True` and
\* `cap = cv2.VideoCapture(self.video_path)`, which hands back a capture object
\* whether the source opened or not; run goes on to the loop with it
MonitorRun(p, opened) ==
    /\ p <= processors
    /\ mon_pc[p] = "started"
    /\ mon_running' = [mon_running EXCEPT ![p] = TRUE]
    /\ mon_local' = [mon_local EXCEPT ![p] =
                       [OpenCapture EXCEPT !.cap = IF opened THEN "open" ELSE "failed"]]
    /\ mon_pc' = [mon_pc EXCEPT ![p] = "loop"]
    /\ UNCHANGED <<ctrl, pc, locals, latest, published, other, starting, processors, reader, caller, dblog, obs>>

\* run with a source that opens
MonitorRunBegin(p) == MonitorRun(p, TRUE)

\* run with a source that does not open
MonitorRunBeginNoSource(p) == MonitorRun(p, FALSE)

\* LaneVideoProcessor.run: the test of `while self.running`; a true flag leads
\* to cap.read(), a false one to cap.release() and the end of the thread
MonitorLoopTest(p) ==
    /\ p <= processors
    /\ mon_pc[p] = "loop"
    /\ mon_pc' = [mon_pc EXCEPT ![p] = IF mon_running[p] THEN "detect" ELSE "done"]
    /\ mon_local' = IF mon_running[p] THEN mon_local
                    ELSE [mon_local EXCEPT ![p].cap = "released"]
    /\ UNCHANGED <<ctrl, pc, locals, latest, published, other, starting, processors, reader, mon_running, caller,
                   dblog, obs>>

\* cap.read() hands back a frame: the source opened and holds a frame at pos
HasFrame(p) == mon_local[p].cap = "open" /\ mon_local[p].pos < MaxFrames

\* cap.set(cv2.CAP_PROP_POS_FRAMES, 0): the position after the seek
Rewind_stay(pos) == pos

Rewind(pos) == 0

\* LaneVideoProcessor.run: cap.read() reports `not ret` (the end of the source,
\* or a source that never opened); the position is set back to the first frame
\* and `continue` leads to the loop test
MonitorEndOfStream(p) ==
    /\ p <= processors
    /\ mon_pc[p] = "detect"
    /\ ~HasFrame(p)
    /\ mon_local' = [mon_local EXCEPT ![p].pos = Rewind(@)]
    /\ mon_pc' = [mon_pc EXCEPT ![p] = "loop"]
    /\ UNCHANGED <<ctrl, pc, locals, latest, published, other, starting, processors, reader, mon_running, caller,
                   dblog, obs>>

\* LaneVideoProcessor.run: cap.read() hands back a frame and the detection
\* returns; the result replaces the slot under the lock, the thread sleeps
\* 0.03 s and is back at the loop test (the whole iteration as one step)
MonitorDetect(p, c, a) ==
    /\ p <= processors
    /\ mon_pc[p] = "detect"
    /\ HasFrame(p)
    /\ mon_local' = [mon_local EXCEPT ![p].pos = @ + 1]
    /\ latest' = [latest EXCEPT ![p] = [counts |-> c, ambulance |-> a]]
    /\ published' = IF published < MaxPublish THEN published + 1 ELSE published
    /\ mon_pc' = [mon_pc EXCEPT ![p] = "loop"]
    /\ reader' = Observe(reader, latest')
    /\ UNCHANGED <<ctrl, pc, locals, other, starting, processors, mon_running, caller, dblog, obs>>

\* The same iteration step by step. cap.read() hands back a frame, the frame
\* is resized and self.detector.detect(frame) returns counts c and flag a
MonitorDetected(p, c, a) ==
    /\ p <= processors
    /\ mon_pc[p] = "detect"
    /\ HasFrame(p)
    /\ published < MaxPublish
    /\ mon_local' = [mon_local EXCEPT ![p].pos = @ + 1,
                                      ![p].result = [counts |-> c, ambulance |-> a]]
    /\ mon_pc' = [mon_pc EXCEPT ![p] = "publish"]
    /\ UNCHANGED <<ctrl, pc, locals, latest, published, other, starting, processors, reader, mon_running, caller,
                   dblog, obs>>

\* cap.read() hands back a frame and the resize or the detection raises: no
\* except clause is around them, the exception leaves run and the thread ends
\* without reaching cap.release()
MonitorDetectRaises(p) ==
    /\ p <= processors
    /\ mon_pc[p] = "detect"
    /\ HasFrame(p)
    /\ mon_local' = [mon_local EXCEPT ![p].pos = @ + 1]
    /\ mon_pc' = [mon_pc EXCEPT ![p] = "crashed"]
    /\ UNCHANGED <<ctrl, pc, locals, latest, published, other, starting, processors, reader, mon_running, caller,
                   dblog, obs>>

\* self.lock of processor p can be acquired: its thread is not inside the
\* `with self.lock` of run
LockFree_always(p) == TRUE

LockFree(p) == mon_pc[p] # "writing"

\* `with self.lock:` is entered and self.latest_counts is assigned
MonitorWriteCounts(p) ==
    /\ p <= processors
    /\ mon_pc[p] = "publish"
    /\ LockFree(p)
    /\ latest' = [latest EXCEPT ![p].counts = mon_local[p].result.counts]
    /\ mon_pc' = [mon_pc EXCEPT ![p] = "writing"]
    /\ reader' = Observe(reader, latest')
    /\ UNCHANGED <<ctrl, pc, locals, published, other, starting, processors, mon_local, mon_running, caller,
                   dblog, obs>>

\* self.is_ambulance is assigned and the `with self.lock` is left; the thread
\* sleeps 0.03 s and is back at the loop test
MonitorWriteFlag(p) ==
    /\ p <= processors
    /\ mon_pc[p] = "writing"
    /\ latest' = [latest EXCEPT ![p].ambulance = mon_local[p].result.ambulance]
    /\ published' = published + 1
    /\ mon_pc' = [mon_pc EXCEPT ![p] = "loop"]
    /\ reader' = Observe(reader, latest')
    /\ UNCHANGED <<ctrl, pc, locals, other, starting, processors, mon_local, mon_running, caller, dblog, obs>>

\* LaneVideoProcessor.stop: the value it stores in self.running
processor_stop_toggle(flag) == ~flag

processor_stop(flag) == FALSE

\* LaneVideoProcessor.stop called on processor p
MonitorStop(p) ==
    /\ p <= processors
    /\ mon_running' = [mon_running EXCEPT ![p] = processor_stop(@)]
    /\ UNCHANGED <<ctrl, pc, locals, latest, published, other, starting, processors, mon_pc, mon_local,
                   caller, reader, dblog, obs>>

\* ------------------------------------------------ the thread that stops all
\* "Stop System": controller.stop() is called (and returns at once)
StopController ==
    /\ caller.at \in {"idle", "returned", "raised"}
    /\ caller.calls < MaxStopCalls
    /\ running' = controller_stop(running)
    /\ caller' = [at |-> "flags", i |-> 0,
                  mid |-> /\ pc \in WaitPcs
                          /\ \E p \in 1..processors : mon_pc[p] = "detect",
                  calls |-> caller.calls + 1, abandoned |-> FALSE]
    /\ UNCHANGED <<lane_states, current_lane, mode, force_emergency_lane,
                   cycle_count, emergency_count, total_wait_time_saved,
                   pc, locals, latest, published, other, starting, processors, mon_local, reader, mon_pc, mon_running,
                   dblog, obs>>

\* MultiLaneDetectionSystem.stop, first loop: p.stop() for every processor
StopProcessors ==
    /\ caller.at = "flags"
    /\ mon_running' = [p \in 1..NumProcessors |->
                         IF p <= processors THEN processor_stop(mon_running[p])
                         ELSE mon_running[p]]
    /\ caller' = [caller EXCEPT !.at = "join", !.i = 1]
    /\ UNCHANGED <<ctrl, pc, locals, latest, published, other, starting, processors, mon_local, reader, mon_pc, dblog, obs>>

\* MultiLaneDetectionSystem.stop, second loop: p.join(timeout=1.0) on a thread
\* that has ended returns at once
JoinEnded ==
    /\ caller.at = "join"
    /\ caller.i <= processors
    /\ mon_pc[caller.i] \in {"done", "crashed"}
    /\ caller' = [caller EXCEPT !.i = caller.i + 1]
    /\ UNCHANGED <<ctrl, pc, locals, latest, published, other, starting, processors, mon_local, reader, mon_pc, mon_running,
                   dblog, obs>>

\* p.join(timeout=1.0) on a thread that is still alive when the second has
\* passed: join returns and the loop goes on to the next processor
JoinTimeout ==
    /\ caller.at = "join"
    /\ caller.i <= processors
    /\ Alive(caller.i)
    /\ caller' = [caller EXCEPT !.i = caller.i + 1, !.abandoned = TRUE]
    /\ UNCHANGED <<ctrl, pc, locals, latest, published, other, starting, processors, mon_local, reader, mon_pc, mon_running,
                   dblog, obs>>

\* p.join(timeout=1.0) on a thread that was never started: threading raises
\* RuntimeError, which leaves MultiLaneDetectionSystem.stop
JoinNotStarted ==
    /\ caller.at = "join"
    /\ caller.i <= processors
    /\ mon_pc[caller.i] = "new"
    /\ caller' = [caller EXCEPT !.at = "raised"]
    /\ UNCHANGED <<ctrl, pc, locals, latest, published, other, starting, processors, mon_local, reader, mon_pc, mon_running,
                   dblog, obs>>

\* MultiLaneDetectionSystem.stop returns after the last join
StopReturn ==
    /\ caller.at = "join"
    /\ caller.i > processors
    /\ caller' = [caller EXCEPT !.at = "returned", !.i = 0]
    /\ UNCHANGED <<ctrl, pc, locals, latest, published, other, starting, processors, mon_local, reader, mon_pc, mon_running,
                   dblog, obs>>

\* What MultiLaneDetectionSystem.stop hands back to its caller
StopResult == "None"

\* ------------------------------------------------------ the reading thread
\* results a detection hands back under the monitor specifications: a busy
\* lane with an ambulance, and a light lane without one
DetectionResults ==
    {[counts |-> CountsOf(6, 2, 1, 1), ambulance |-> TRUE],
     [counts |-> CountsOf(3, 0, 0, 0), ambulance |-> FALSE]}

\* MultiLaneDetectionSystem.get_all_lane_data is called: `data = {}`
ReaderCall ==
    /\ reader.op = "none"
    /\ reader' = [op |-> "all", i |-> 1, map |-> <<>>, instants |-> {latest}, got |-> <<>>]
    /\ UNCHANGED <<ctrl, pc, locals, latest, published, other, starting, processors, mon_pc, mon_running,
                   mon_local, caller, dblog, obs>>

\* get_all_lane_data, one turn of `for p in self.processors`: p.get_data()
\* takes the lock of that processor, copies its slot and releases the lock; the
\* entry is stored under the processor's lane id
ReaderGetData ==
    /\ reader.op = "all"
    /\ reader.i <= processors
    /\ LockFree(reader.i)
    /\ reader' = [reader EXCEPT !.map = Append(@, LaneEntry(reader.i)), !.i = @ + 1]
    /\ UNCHANGED <<ctrl, pc, locals, latest, published, other, starting, processors, mon_pc, mon_running,
                   mon_local, caller, dblog, obs>>

\* get_all_lane_data: `return data` after the last processor
ReaderReturn ==
    /\ reader.op = "all"
    /\ reader.i > processors
    /\ reader' = [reader EXCEPT !.op = "returned", !.i = 0]
    /\ UNCHANGED <<ctrl, pc, locals, latest, published, other, starting, processors, mon_pc, mon_running,
                   mon_local, caller, dblog, obs>>

\* ------------------------------------------------------------ the database
RECURSIVE SumSeq(_)
SumSeq(ns) == IF ns = <<>> THEN 0 ELSE Head(ns) + SumSeq(Tail(ns))

\* get_today_stats: `max(0, 60 - l.green_duration)` of one row
RowWaitSaved_signed(duration) == 60 - duration

RowWaitSaved(duration) == Max(0, 60 - duration)

\* get_today_stats: the rows whose timestamp is not before the start of today
RowsToday == SelectSeq(table, LAMBDA r : r.day >= today)

\* DatabaseManager.get_today_stats
get_today_stats ==
    LET logs == RowsToday
    IN [total_cycles |-> Len(logs),
        total_vehicles |-> SumSeq([i \in 1..Len(logs) |-> SumValues(logs[i].vehicle_counts)]),
        emergency_events |->
            SumSeq([i \in 1..Len(logs) |->
                      IF logs[i].signal_mode = "EMERGENCY" THEN 1 ELSE 0]),
        wait_time_saved |->
            SumSeq([i \in 1..Len(logs) |-> RowWaitSaved(logs[i].green_duration)])]

\* DatabaseManager.log_traffic_cycle: a row with the arguments and the current
\* time is added and committed; when the commit fails the session is rolled
\* back, the error printed and the call returns all the same
log_traffic_cycle(ok, lane_id, vehicle_counts, ambulance_detected, duration, signal_mode) ==
    /\ Len(table) < MaxRows
    /\ table' = IF ok
                THEN AddRow(table, lane_id, vehicle_counts, ambulance_detected,
                            duration, signal_mode)
                ELSE table
    /\ UNCHANGED <<ctrl, pc, locals, env, log_count, last_log, log_failures, today, obs>>

\* Midnight passes: datetime.now().date() is the next day
DayPasses ==
    /\ today < MaxDays
    /\ today' = today + 1
    /\ UNCHANGED <<ctrl, pc, locals, env, log_count, last_log, log_failures, table, obs>>

\* arguments of the log calls drawn in the database specification: green
\* durations below, at and above the fixed 60 s, the counts of the
\* repository's database test and an empty dict
LogDurations == {45, 60, 90}
LogCounts == {EmptyCounts, [c \in {"car", "bus", "truck"} |->
                              CASE c = "car" -> 5 [] c = "bus" -> 2 [] OTHER -> 1]}

\* TrafficSignalController.get_all_states is called and reaches `with self.lock:`
StatesCall ==
    /\ reader.op = "none"
    /\ reader' = [NoReader EXCEPT !.op = "states"]
    /\ UNCHANGED <<ctrl, pc, locals, latest, published, other, starting, processors, mon_pc, mon_running,
                   mon_local, caller, dblog, obs>>

\* get_all_states takes the lock
StatesAcquire ==
    /\ reader.op = "states"
    /\ SchedulerLockFree
    /\ reader' = [reader EXCEPT !.op = "states_locked"]
    /\ UNCHANGED <<ctrl, pc, locals, latest, published, other, starting, processors, mon_pc, mon_running,
                   mon_local, caller, dblog, obs>>

\* get_all_states returns self.lane_states.copy() and leaves the lock
StatesReturn ==
    /\ reader.op = "states_locked"
    /\ reader' = [reader EXCEPT !.op = "states_returned", !.map = <<get_all_states>>]
    /\ UNCHANGED <<ctrl, pc, locals, latest, published, other, starting, processors, mon_pc, mon_running,
                   mon_local, caller, dblog, obs>>

\* get_statistics read by read, in the order the dict display evaluates:
\* cycle_count, emergency_count, total_wait_time_saved, current_lane,
\* mode.value, then the test `self.cycle_count > 0` and, when it is true, the
\* two operands of the division
StatsField(k) ==
    CASE k \in {1, 6, 8} -> cycle_count
      [] k = 2 -> emergency_count
      [] k \in {3, 7} -> total_wait_time_saved
      [] k = 4 -> current_lane
      [] OTHER -> mode

\* The dict get_statistics returns, from the values it has read
StatsResult(got) ==
    [total_cycles |-> got[1],
     emergency_events |-> got[2],
     wait_time_saved |-> got[3],
     current_lane |-> got[4],
     mode |-> got[5],
     avg_wait_saved_per_cycle |->
        IF got[6] > 0 THEN TrueDiv(got[7], got[8]) ELSE [num |-> 0, den |-> 1]]

\* TrafficSignalController.get_statistics is called (it takes no lock)
StatsCall ==
    /\ reader.op = "none"
    /\ reader' = [NoReader EXCEPT !.op = "stats", !.i = 1]
    /\ UNCHANGED <<ctrl, pc, locals, latest, published, other, starting, processors, mon_pc, mon_running,
                   mon_local, caller, dblog, obs>>

\* get_statistics reads the next field of the controller
StatsRead ==
    /\ reader.op = "stats"
    /\ reader.i <= 8
    /\ reader.i = 7 => reader.got[6] > 0
    /\ reader' = [reader EXCEPT !.got = Append(@, StatsField(reader.i)), !.i = @ + 1]
    /\ UNCHANGED <<ctrl, pc, locals, latest, published, other, starting, processors, mon_pc, mon_running,
                   mon_local, caller, dblog, obs>>

\* get_statistics returns the dict
StatsReturn ==
    /\ reader.op = "stats"
    /\ \/ reader.i > 8
       \/ reader.i = 7 /\ reader.got[6] <= 0
    /\ reader' = [reader EXCEPT !.op = "stats_returned", !.i = 0]
    /\ UNCHANGED <<ctrl, pc, locals, latest, published, other, starting, processors, mon_pc, mon_running,
                   mon_local, caller, dblog, obs>>

\* ---------------------------------------------------------- specifications
Handlers ==
    \/ NormalRead
    \/ NormalFlag
    \/ NormalCount
    \/ NormalTiming
    \/ NormalLog
    \/ NormalGreenEnd
    \/ TransitionYellow
    \/ TransitionRed
    \/ TransitionGreen
    \/ NormalReset
    \/ NormalEnd
    \/ EmergencyBegin
    \/ EmergencyRead
    \/ EmergencyLog
    \/ EmergencyEnd

Checks ==
    \/ CheckOverride
    \/ ScanLane
    \/ ScanResult
    \/ Dispatch

\* One controller, started once and left running, beside publishing monitors
\* and manual overrides
Next ==
    \/ start
    \/ \E l \in ForceArgs : force_emergency(l)
    \/ \E p \in 1..NumProcessors, c \in PublishCounts, a \in BOOLEAN : MonitorPublish(p, c, a)
    \/ RunBegin
    \/ RunInit
    \/ LoopTest(MaxCycles)
    \/ Checks
    \/ Handlers

Spec == Init /\ [][Next]_vars

\* start() called again on the same controller once the previous scheduler
\* thread has returned from run()
start_again ==
    /\ pc = "stopped"
    /\ pc' = "run_begin"
    /\ UNCHANGED <<ctrl, locals, env, dblog, obs>>

NextRestart == Next \/ stop \/ start_again

\* The controller of Spec, stopped and restarted
SpecRestart == Init /\ [][NextRestart]_vars

\* No ambulance is ever reported and force_emergency is never called
NextQuiet ==
    \/ start
    \/ stop
    \/ \E p \in 1..NumProcessors, c \in QuietCounts : MonitorPublish(p, c, FALSE)
    \/ RunBegin
    \/ RunInit
    \/ LoopTest(MaxQuietCycles)
    \/ CheckOverride
    \/ ScanLane
    \/ ScanResult
    \/ Dispatch
    \/ NormalRead
    \/ NormalFlag
    \/ NormalTiming
    \/ NormalLog
    \/ NormalGreenEnd
    \/ TransitionYellow
    \/ TransitionRed
    \/ TransitionGreen
    \/ NormalReset
    \/ NormalEnd

SpecQuiet == Init /\ [][NextQuiet]_vars

\* The emergency-free controller running up to MaxCycles cycles beside a
\* thread that calls get_statistics
NextStats ==
    \/ start
    \/ stop
    \/ \E p \in 1..NumProcessors, c \in QuietCounts : MonitorPublish(p, c, FALSE)
    \/ RunBegin
    \/ RunInit
    \/ LoopTest(MaxCycles)
    \/ CheckOverride
    \/ ScanLane
    \/ ScanResult
    \/ Dispatch
    \/ NormalRead
    \/ NormalFlag
    \/ NormalTiming
    \/ NormalLog
    \/ NormalGreenEnd
    \/ TransitionYellow
    \/ TransitionRed
    \/ TransitionGreen
    \/ NormalReset
    \/ NormalEnd
    \/ StatsCall
    \/ StatsRead
    \/ StatsReturn

SpecStats == Init /\ [][NextStats]_vars

\* One controller, started once, with force_emergency called with any integer,
\* beside lanes that report ambulances
NextAnyArg ==
    \/ start
    \/ stop
    \/ \E l \in AnyForceArgs : force_emergency(l)
    \/ \E p \in 1..NumProcessors : AmbulanceReport(p)
    \/ RunBegin
    \/ RunInit
    \/ LoopTest(MaxCycles)
    \/ Checks
    \/ Handlers

SpecAnyArg == Init /\ [][NextAnyArg]_vars

\* The database alone: log calls that commit or fail, and midnights
NextDatabase ==
    \/ \E ok \in BOOLEAN, c \in LogCounts, d \in LogDurations,
          m \in {"NORMAL", "EMERGENCY"} :
           log_traffic_cycle(ok, 1, c, m = "EMERGENCY", d, m)
    \/ DayPasses

SpecDatabase == Init /\ [][NextDatabase]_vars

\* get_all_lane_data raises inside the emergency check
ScanRaises ==
    /\ pc = "scan"
    /\ DetectionRaises

\* The controller with every `with self.lock:` block of the scheduler thread
\* entered in one step and left in another, beside manual overrides, a thread
\* that calls get_all_states, and an emergency check that may raise
NextLock ==
    \/ start
    \/ stop
    \/ \E l \in ForceArgs : force_emergency(l)
    \/ StatesCall
    \/ StatesAcquire
    \/ StatesReturn
    \/ RunBegin
    \/ LockEnter
    \/ RunInitLocked
    \/ LoopTest(MaxCycles)
    \/ CheckOverrideLocked
    \/ ScanLane
    \/ ScanResult
    \/ Dispatch
    \/ NormalRead
    \/ NormalFlag
    \/ NormalTiming
    \/ NormalLog
    \/ NormalGreenEnd
    \/ TransitionYellowLocked
    \/ TransitionRedLocked
    \/ TransitionGreenLocked
    \/ NormalReset
    \/ NormalEnd
    \/ EmergencyBegin
    \/ EmergencyRead
    \/ EmergencyLog
    \/ EmergencyEnd
    \/ ScanRaises
    \/ BackoffEnd

SpecLock == Init /\ [][NextLock]_vars

\* The steps of the scheduler thread: run() from its first statement, the
\* emergency check and the two handlers, every time.sleep returning
SchedulerStep ==
    \/ RunBegin
    \/ RunInit
    \/ LoopTest(MaxCycles)
    \/ Checks
    \/ Handlers

NextLive ==
    \/ start
    \/ \E l \in ForceArgs : force_emergency(l)
    \/ \E p \in 1..NumProcessors : AmbulanceReport(p)
    \/ SchedulerStep

\* The controller beside lanes that report ambulances continuously, its thread
\* scheduled again and again: a started thread that can take a step takes one
SpecLive == Init /\ [][NextLive]_vars /\ WF_vars(SchedulerStep)

\* The position and the locals of the thread that is taking steps
ThisThread ==
    [pc |-> pc, emergency_lane |-> emergency_lane, all_data |-> all_data, lane |-> lane,
     counts |-> counts, ambulance |-> ambulance, green_duration |-> green_duration,
     from_lane |-> from_lane, to_lane |-> to_lane, reason |-> reason]

\* The interpreter passes control from one thread of run() to the other (a
\* thread start() has not created yet takes no step but can be started)
SwitchThread ==
    /\ other # ThisThread
    /\ pc' = other.pc
    /\ emergency_lane' = other.emergency_lane
    /\ all_data' = other.all_data
    /\ lane' = other.lane
    /\ counts' = other.counts
    /\ ambulance' = other.ambulance
    /\ green_duration' = other.green_duration
    /\ from_lane' = other.from_lane
    /\ to_lane' = other.to_lane
    /\ reason' = other.reason
    /\ other' = ThisThread
    /\ UNCHANGED <<ctrl, latest, published, starting, processors, mon_pc, mon_running, mon_local,
                   caller, reader, dblog, obs>>

\* start() and stop() called in any order on one controller: every start()
\* creates a thread that executes run() (two of them are followed), no lane
\* reports an ambulance
NextThreads ==
    \/ start
    \/ stop
    \/ SwitchThread
    \/ RunBegin
    \/ RunInit
    \/ LoopTest(MaxCycles)
    \/ CheckOverride
    \/ ScanLane
    \/ ScanResult
    \/ Dispatch
    \/ NormalRead
    \/ NormalFlag
    \/ NormalTiming
    \/ NormalLog
    \/ NormalGreenEnd
    \/ TransitionYellow
    \/ TransitionRed
    \/ TransitionGreen
    \/ NormalReset
    \/ NormalEnd

SpecThreads == Init /\ [][NextThreads]_vars

\* ... with force_emergency never called: the lanes' reports alone decide
NextAmbulance ==
    \/ start
    \/ stop
    \/ \E p \in 1..NumProcessors : AmbulanceReport(p)
    \/ SchedulerStep

SpecAmbulance == Init /\ [][NextAmbulance]_vars /\ WF_vars(SchedulerStep)

\* The scheduler about to run a normal cycle on lane 1, right after start-up,
\* with any snapshot of up to MaxPerClass vehicles per class in lane 1's slot
InitGreen ==
    /\ lane_states = [l \in Lanes |-> IF l = 1 THEN "GREEN" ELSE "RED"]
    /\ current_lane = 1
    /\ mode = "NORMAL"
    /\ running = TRUE
    /\ force_emergency_lane = None
    /\ cycle_count = 0
    /\ emergency_count = 0
    /\ total_wait_time_saved = 0
    /\ pc = "normal"
    /\ emergency_lane = None
    /\ all_data = <<>>
    /\ lane = 0
    /\ counts = EmptyCounts
    /\ ambulance = FALSE
    /\ green_duration = 0
    /\ from_lane = 0
    /\ to_lane = 0
    /\ reason = "none"
    /\ \E c \in WideCounts :
         latest = [p \in 1..NumProcessors |->
                     [counts |-> IF p = 1 THEN c ELSE ZeroCounts, ambulance |-> FALSE]]
    /\ published = 1
    /\ log_count = 0
    /\ last_log = NoLog
    /\ waited = 0
    /\ entry = [cycle_count |-> 0, emergency_count |-> 0, log_count |-> 0,
                total_wait_time_saved |-> 0]
    /\ last_phase = NoPhase
    /\ owed = None
    /\ log_failures = 0
    /\ table = <<>>
    /\ today = 0
    /\ other = NoThread
    /\ starting = 0
    /\ served = <<>>
    /\ processors = NumProcessors
    /\ mon_pc = [p \in 1..NumProcessors |-> "loop"]
    /\ mon_running = [p \in 1..NumProcessors |-> TRUE]
    /\ mon_local = [p \in 1..NumProcessors |-> OpenCapture]
    /\ caller = NoCaller
    /\ reader = NoReader

NextGreen ==
    \/ NormalRead
    \/ NormalFlag
    \/ NormalTiming
    \/ NormalLog

SpecGreen == InitGreen /\ [][NextGreen]_vars

\* The controller constructed beside a started detection system that was built
\* with any number of video paths from none to four: lanes above that number
\* have no processor
InitAbsent ==
    /\ Constructed
    /\ processors \in 0..NumProcessors
    /\ mon_pc = [p \in 1..NumProcessors |-> IF p <= processors THEN "loop" ELSE "none"]
    /\ mon_running = [p \in 1..NumProcessors |-> p <= processors]
    /\ mon_local = [p \in 1..NumProcessors |->
                      IF p <= processors THEN OpenCapture ELSE NoCapture]
    /\ caller = NoCaller
    /\ reader = NoReader

\* The emergency-free controller beside such a detection system
SpecAbsent == InitAbsent /\ [][NextQuiet]_vars

\* The controller of Spec without manual overrides, with a detection system
\* whose calls may raise and a log whose calls may fail: the commit is rolled
\* back inside log_traffic_cycle, or the call raises, before or after its row
\* was committed
NextFaulty ==
    \/ start
    \/ stop
    \/ \E p \in 1..NumProcessors, c \in PublishCounts, a \in BOOLEAN : MonitorPublish(p, c, a)
    \/ RunBegin
    \/ RunInit
    \/ LoopTest(MaxCycles)
    \/ Checks
    \/ Handlers
    \/ NormalLogRolledBack
    \/ EmergencyLogRolledBack
    \/ NormalLogFails
    \/ EmergencyLogFails
    \/ NormalLogFailsStored
    \/ EmergencyLogFailsStored
    \/ DetectionRaises
    \/ BackoffEnd

SpecFaulty == Init /\ [][NextFaulty]_vars

\* The detection system built with MaxMonitors video paths and not yet started
InitShutdown ==
    /\ Constructed
    /\ processors = MaxMonitors
    /\ mon_pc = [p \in 1..NumProcessors |-> "new"]
    /\ mon_running = [p \in 1..NumProcessors |-> FALSE]
    /\ mon_local = [p \in 1..NumProcessors |-> NoCapture]
    /\ caller = NoCaller
    /\ reader = NoReader

\* MultiLaneDetectionSystem.start as the application calls it: on a detection
\* system that holds a processor never started (and the turns of that call)
start_detection ==
    /\ starting > 0 \/ \E p \in 1..processors : mon_pc[p] = "new"
    /\ detection_start

\* The life of the whole system: the processors are started, the controller is
\* started, both run, and the system is stopped (controller first, then the
\* detection system), at any moment and up to MaxStopCalls times
NextShutdown ==
    \/ start_detection
    \/ \E p \in 1..NumProcessors : MonitorRunBegin(p)
    \/ \E p \in 1..NumProcessors : MonitorLoopTest(p)
    \/ \E p \in 1..NumProcessors : MonitorEndOfStream(p)
    \/ \E p \in 1..NumProcessors, c \in PublishCounts : MonitorDetect(p, c, FALSE)
    \/ start
    \/ RunBegin
    \/ RunInit
    \/ LoopTest(MaxShutdownCycles)
    \/ CheckOverride
    \/ ScanLane
    \/ ScanResult
    \/ Dispatch
    \/ NormalRead
    \/ NormalFlag
    \/ NormalTiming
    \/ NormalLog
    \/ NormalGreenEnd
    \/ TransitionYellow
    \/ TransitionRed
    \/ TransitionGreen
    \/ NormalReset
    \/ NormalEnd
    \/ StopController
    \/ StopProcessors
    \/ JoinEnded
    \/ JoinTimeout
    \/ JoinNotStarted
    \/ StopReturn

SpecShutdown == InitShutdown /\ [][NextShutdown]_vars

\* The detection system alone, its processor threads followed from start to
\* end: sources that open or not, end-of-stream, detections that return or
\* raise, and stop() of a processor at any moment
NextMonitor ==
    \/ detection_start
    \/ \E p \in 1..NumProcessors : MonitorRunBegin(p)
    \/ \E p \in 1..NumProcessors : MonitorRunBeginNoSource(p)
    \/ \E p \in 1..NumProcessors : MonitorLoopTest(p)
    \/ \E p \in 1..NumProcessors : MonitorEndOfStream(p)
    \/ \E p \in 1..NumProcessors, r \in DetectionResults :
           MonitorDetect(p, r.counts, r.ambulance)
    \/ \E p \in 1..NumProcessors : MonitorDetectRaises(p)
    \/ \E p \in 1..NumProcessors : MonitorStop(p)

\* The detection system built with the video path of lane 1 and those of
\* MaxMonitors other lanes, not yet started
InitMonitor ==
    /\ Constructed
    /\ processors = MaxMonitors + 1
    /\ mon_pc = [p \in 1..NumProcessors |-> IF p <= processors THEN "new" ELSE "none"]
    /\ mon_running = [p \in 1..NumProcessors |-> FALSE]
    /\ mon_local = [p \in 1..NumProcessors |-> NoCapture]
    /\ caller = NoCaller
    /\ reader = NoReader

SpecMonitor == InitMonitor /\ [][NextMonitor]_vars

\* MaxMonitors running processors whose locked write of the slot is followed
\* assignment by assignment, beside a thread that reads all lanes
InitLocked ==
    /\ Constructed
    /\ processors = MaxMonitors
    /\ mon_pc = [p \in 1..NumProcessors |-> IF p <= processors THEN "loop" ELSE "none"]
    /\ mon_running = [p \in 1..NumProcessors |-> p <= processors]
    /\ mon_local = [p \in 1..NumProcessors |->
                      IF p <= processors THEN OpenCapture ELSE NoCapture]
    /\ caller = NoCaller
    /\ reader = NoReader

NextLocked ==
    \/ \E p \in 1..NumProcessors : MonitorLoopTest(p)
    \/ \E p \in 1..NumProcessors : MonitorEndOfStream(p)
    \/ \E p \in 1..NumProcessors, r \in DetectionResults :
           MonitorDetected(p, r.counts, r.ambulance)
    \/ \E p \in 1..NumProcessors : MonitorWriteCounts(p)
    \/ \E p \in 1..NumProcessors : MonitorWriteFlag(p)
    \/ ReaderCall
    \/ ReaderGetData
    \/ ReaderReturn

SpecLocked == InitLocked /\ [][NextLocked]_vars

\* The four running processors, each publishing whole results, beside a thread
\* that reads all lanes
NextSnapshot ==
    \/ \E p \in 1..NumProcessors, r \in DetectionResults :
           MonitorPublish(p, r.counts, r.ambulance)
    \/ ReaderCall
    \/ ReaderGetData
    \/ ReaderReturn

SpecSnapshot == Init /\ [][NextSnapshot]_vars

\* stop() called while the scheduler thread is inside a time.sleep
stop_in_wait ==
    /\ pc \in WaitPcs
    /\ stop

NextStopInWait ==
    \/ start
    \/ stop_in_wait
    \/ \E l \in ForceArgs : force_emergency(l)
    \/ \E p \in 1..NumProcessors, c \in PublishCounts, a \in BOOLEAN : MonitorPublish(p, c, a)
    \/ RunBegin
    \/ RunInit
    \/ LoopTest(MaxCycles)
    \/ Checks
    \/ Handlers

\* The controller of Spec when every stop request arrives during a timed wait
SpecStopInWait == Init /\ [][NextStopInWait]_vars

\* ------------------------------------------------------------------ claims
NonRed(states) == {l \in DOMAIN states : states[l] # "RED"}

\* The green time the three tiers prescribe for n vehicles
TierOf(n) ==
    CASE n > 15 -> 60
      [] n >= 5 /\ n <= 15 -> 30
      [] n < 5 -> 15

\* An emergency the scheduler has not yet acted on: a pending manual override,
\* or an ambulance reported by a lane other than lane l
EmergencyVisible(l) ==
    \/ force_emergency_lane # None
    \/ \E p \in 1..NumProcessors : p # l /\ latest[p].ambulance

\* The lowest-numbered lane of a snapshot map that reports an ambulance
LowestAmbulance(items) ==
    LET flagged == {items[i].lane_id : i \in {j \in 1..Len(items) : items[j].ambulance}}
    IN IF flagged = {} THEN None
       ELSE Some(CHOOSE l \in flagged : \A m \in flagged : l <= m)

\* C1: once the scheduler has been started, every get_all_states() read shows
\* at most one lane that is not RED.
C1_AtMostOneNonRed ==
    pc # "idle" => Cardinality(NonRed(get_all_states)) <= 1

\* C1, within one run: the same bound for a controller that is started once
\* (checked under Spec, where start() is not called again).
C1_AtMostOneNonRedSingleRun ==
    Cardinality(NonRed(get_all_states)) <= 1

\* C2: when an emergency (manual override, or ambulance in another lane) is
\* visible while the scheduler holds the active lane GREEN in a normal cycle,
\* the wait ends before the green duration has elapsed and the transition the
\* scheduler begins is the emergency one, not the normal one to the next lane.
C2_GreenWaitPreempted ==
    [][(pc = "normal_green" /\ EmergencyVisible(lane) /\ pc' # pc)
         => (waited' < green_duration /\ reason' = "AMBULANCE DETECTED")]_vars

\* C3: with no ambulance and no manual override, the lanes served by the
\* successive normal cycles are 1,2,3,4,1,2,...: the k-th cycle (counting from
\* 0) serves lane (k mod 4)+1, which is the lane after the one the previous
\* cycle served, and that lane is the GREEN one.
C3_RoundRobin ==
    pc = "normal_green" =>
        /\ lane = (cycle_count % 4) + 1
        /\ last_phase.kind = "normal" => lane = (last_phase.lane % 4) + 1
        /\ NonRed(lane_states) = {lane}
        /\ lane_states[lane] = "GREEN"

C3_Witness ==
    pc = "normal_green" /\ lane = 1 /\ cycle_count = 4 /\ last_phase.lane = 4

\* C4: the green duration computed for n vehicles is 60 for n > 15, 30 for
\* 5 <= n <= 15 and 15 for n < 5 (so 20 -> 60, 10 -> 30, 3 -> 15, 15 -> 30,
\* 5 -> 30, 4 -> 15).
C4_GreenDurationTiers ==
    pc = "normal_green" =>
        LET n == SumValues(counts)
        IN /\ green_duration = TierOf(n)
           /\ n = 20 => green_duration = 60
           /\ n = 10 => green_duration = 30
           /\ n = 3 => green_duration = 15
           /\ n = 15 => green_duration = 30
           /\ n = 5 => green_duration = 30
           /\ n = 4 => green_duration = 15

C4_Witness ==
    pc = "normal_green" /\ SumValues(counts) = 15 /\ green_duration = 30

\* C5: the emergency check returns the pending manual override when there is
\* one; otherwise it reads every lane's snapshot and returns the lowest-numbered
\* lane among those read with the ambulance flag set, or no lane when none is.
C5_EmergencyCheckResult ==
    [][/\ (pc = "check" /\ pc' # pc) =>
            IF force_emergency_lane # None
            THEN pc' = "dispatch" /\ emergency_lane' = force_emergency_lane
            ELSE pc' = "scan" /\ emergency_lane' = None
       /\ (pc = "scan" /\ pc' # pc) =>
            /\ {all_data[i].lane_id : i \in 1..Len(all_data)} = 1..NumProcessors
            /\ pc' = "dispatch"
            /\ emergency_lane' = LowestAmbulance(all_data)]_vars

C5_Witness ==
    /\ pc = "dispatch"
    /\ emergency_lane = Some(2)
    /\ owed = None
    /\ ~latest[1].ambulance /\ latest[2].ambulance /\ latest[3].ambulance

\* C6: the override slot holds at most one lane, namely the lane of the latest
\* force_emergency call that no emergency check has taken yet: a call replaces
\* a pending lane, and the check that reads the slot leaves it empty.
C6_OverrideSlot ==
    /\ Len(force_emergency_lane) <= 1
    /\ force_emergency_lane = owed

C6_Witness ==
    /\ pc = "dispatch"
    /\ emergency_lane = Some(3)
    /\ force_emergency_lane = None
    /\ \A p \in 1..NumProcessors : ~latest[p].ambulance

\* C7: an emergency override towards a lane E other than the active lane ends
\* with E GREEN and active, after a 45 second green, exactly one log call since
\* the handler was called (lane E, 45 seconds, mode EMERGENCY), and the cycle
\* and emergency counters each one above their value at the call.
C7_EmergencyOverrideEffect ==
    [][(pc = "emergency_green" /\ pc' # pc) =>
         LET E == emergency_lane[1]
         IN /\ pc' = "loop"
            /\ lane_states'[E] = "GREEN"
            /\ NonRed(lane_states') = {E}
            /\ current_lane' = E
            /\ waited' = 45
            /\ log_count' = entry.log_count + 1
            /\ last_log'.lane_id = E
            /\ last_log'.green_duration = 45
            /\ last_log'.signal_mode = "EMERGENCY"
            /\ cycle_count' = entry.cycle_count + 1
            /\ emergency_count' = entry.emergency_count + 1]_vars

C7_Witness ==
    /\ pc = "loop"
    /\ last_phase = [kind |-> "emergency", lane |-> 3]
    /\ current_lane = 3
    /\ cycle_count = 1
    /\ emergency_count = 1
    /\ log_count = 1

\* C8 as claimed: the first normal cycle after an emergency episode on lane E
\* serves lane (E mod 4)+1.
C8_ResumeAfterEmergencyLane ==
    [][(pc = "normal" /\ pc' = "normal_flag" /\ last_phase.kind = "emergency")
         => lane' = (last_phase.lane % 4) + 1]_vars

\* C8, amended: the first normal cycle after an emergency episode on lane E
\* serves lane E itself, and the transition that ends it goes from E to
\* (E mod 4)+1.
C8_ResumeAtEmergencyLane ==
    [][/\ (pc = "normal" /\ pc' = "normal_flag" /\ last_phase.kind = "emergency")
            => lane' = last_phase.lane
       /\ (pc = "normal_green" /\ pc' # pc /\ last_phase.kind = "emergency")
            => /\ pc' = "transition"
               /\ from_lane' = last_phase.lane
               /\ to_lane' = (last_phase.lane % 4) + 1]_vars

C8_Witness ==
    /\ pc = "transition"
    /\ reason = "Normal Cycle"
    /\ last_phase = [kind |-> "emergency", lane |-> 4]
    /\ from_lane = 4
    /\ to_lane = 1

\* C9: an emergency override for the lane that is already active changes
\* neither lane_states nor current_lane nor the two counters, and the active
\* lane is GREEN afterwards.
C9_SameLaneNoTransition ==
    [][(pc = "emergency" /\ emergency_lane = Some(current_lane) /\ pc' # pc) =>
         /\ pc' = "loop"
         /\ UNCHANGED <<lane_states, current_lane, cycle_count, emergency_count>>
         /\ lane_states'[current_lane'] = "GREEN"]_vars

C9_Witness ==
    /\ pc = "loop"
    /\ mode = "EMERGENCY"
    /\ cycle_count = 0
    /\ emergency_count = 0
    /\ lane_states[current_lane] = "GREEN"

\* C10: a normal cycle whose active lane L reports an ambulance runs in mode
\* EMERGENCY with the emergency counter one above its value at the call, keeps
\* the tier-based green for L, goes on to lane (L mod 4)+1, and leaves the mode
\* NORMAL when it completes.
C10_ActiveLaneAmbulance ==
    [][(ambulance /\ pc' # pc) =>
         /\ pc = "normal_flag" => mode' = "EMERGENCY" /\ pc' = "normal_count"
         /\ pc = "normal_count" =>
              /\ emergency_count = entry.emergency_count
              /\ emergency_count' = entry.emergency_count + 1
         /\ pc \notin {"normal_flag", "normal_count"} =>
              /\ emergency_count = entry.emergency_count + 1
              /\ emergency_count' = emergency_count
         /\ pc \notin {"normal_flag", "normal_end"} => mode = "EMERGENCY"
         /\ pc \notin {"normal_reset", "normal_end"} => mode' = "EMERGENCY" /\ lane' = lane
         /\ pc = "normal_timing" => green_duration' = TierOf(SumValues(counts))
         /\ pc \notin {"normal_flag", "normal_count", "normal_timing"} =>
              green_duration = TierOf(SumValues(counts))
         /\ pc = "normal_green" =>
              waited' = green_duration /\ from_lane' = lane /\ to_lane' = (lane % 4) + 1
         /\ pc = "red" => current_lane' = (lane % 4) + 1
         /\ pc = "normal_reset" => mode' = "NORMAL" /\ pc' = "normal_end"
         /\ pc = "normal_end" =>
              /\ mode = "NORMAL" /\ mode' = "NORMAL"
              /\ pc' = "loop"
              /\ cycle_count' = entry.cycle_count + 1
              /\ current_lane' = (last_phase'.lane % 4) + 1]_vars

C10_Witness ==
    /\ pc = "normal_reset"
    /\ ambulance
    /\ mode = "EMERGENCY"
    /\ emergency_count = 1
    /\ lane = 2
    /\ current_lane = 3

\* C11: every time run() begins, the state it leaves right after its
\* initialisation is lane 1 GREEN, lanes 2, 3 and 4 RED, mode NORMAL, current
\* lane 1 (checked with start() called again after a stop).
C11_StateAfterInit ==
    [][(pc = "run_init" /\ pc' # pc) =>
         /\ lane_states' = [l \in Lanes |-> IF l = 1 THEN "GREEN" ELSE "RED"]
         /\ mode' = "NORMAL"
         /\ current_lane' = 1]_vars

\* C12: once stop() has been called during a timed wait, the step by which the
\* scheduler leaves a wait is its return from run(): no lane changes colour
\* any more and the cycle counter is not incremented.
C12_StopAbandonsWait ==
    [][(pc \in WaitPcs /\ ~running /\ pc' # pc) =>
         /\ pc' = "stopped"
         /\ lane_states' = lane_states
         /\ cycle_count' = cycle_count]_vars

\* C13: when the system is stopped while a lane monitor is mid-detection and
\* the scheduler is mid-wait, then once controller.stop() and the detection
\* system's stop() have returned, the scheduler thread has ended and so has
\* every lane-monitor thread.
C13_NoThreadAfterStop ==
    (caller.at = "returned" /\ caller.mid) =>
        /\ pc \in {"idle", "stopped"}
        /\ \A p \in 1..processors : mon_pc[p] \in {"new", "done"}

\* C14: stop() called again, on a controller, on the lane monitors and on the
\* detection system whose flags an earlier stop() has cleared, changes nothing:
\* the state after the second call is the state after the first.
C14_StopIdempotent ==
    [][(/\ caller' # caller
        /\ caller'.calls >= 2
        /\ ~running
        /\ \A p \in 1..processors : ~mon_running[p])
         => /\ running' = controller_stop(controller_stop(running))
            /\ \A p \in 1..processors :
                 mon_running'[p] = processor_stop(processor_stop(mon_running[p]))
            /\ UNCHANGED <<ctrl, pc, locals, latest, published, other, starting, processors, mon_local, reader, mon_pc,
                           mon_running, dblog, obs>>]_vars

C14_Witness ==
    /\ caller.at = "returned"
    /\ caller.calls = 2
    /\ pc = "stopped"
    /\ ~running
    /\ \A p \in 1..processors : mon_pc[p] = "done" /\ ~mon_running[p]

\* C15: the system stop never throws, whatever the state of the monitors
\* (never started, running, already stopped), and a stop that returns after
\* giving up on a monitor reports a partial stop to its caller.
C15_StopNeverThrows ==
    /\ caller.at # "raised"
    /\ (caller.at = "returned" /\ caller.abandoned) => StopResult = "partial"

\* C16: run() returns only from its loop test and only when running is false;
\* an error raised inside an iteration (in the emergency check, in the normal
\* cycle or in the emergency override) takes the thread to the backoff sleep,
\* and after the backoff the loop test comes next.
C16_LoopEndsOnlyOnStop ==
    [][/\ (pc' = "stopped" /\ pc # "stopped") => (pc = "loop" /\ ~running)
       /\ (pc \in DetectionCallPcs /\ pc' \notin {pc, "dispatch", "normal_flag",
                                                  "emergency_log"})
            => (pc' = "backoff" /\ running' = running)
       /\ (pc = "backoff" /\ pc' # pc)
            => (pc' = "loop" /\ waited' = backoff_delay)]_vars

C16_Witness ==
    /\ pc = "normal_green"
    /\ waited = backoff_delay
    /\ running
    /\ cycle_count = 0

\* The position a handler's log call leaves when the call succeeds
PcAfterLog == IF pc = "normal_log" THEN "normal_green" ELSE "emergency_green"

\* A log call of either handler fails: it ends without a stored row (the
\* commit was rolled back, or the call raised before a row was stored), or it
\* raises after its row was committed
LogCallFailed ==
    /\ pc \in {"normal_log", "emergency_log"}
    /\ pc' # pc
    /\ table' = table \/ log_failures' # log_failures

\* C18: a log call that fails is swallowed (the handler goes on to its green
\* wait with the same green duration) and is counted as a dropped event: the
\* controller is left in a state other than the one a successful call leaves.
C18_LogFailureCounted ==
    [][LogCallFailed =>
         /\ pc' = PcAfterLog
         /\ green_duration' = green_duration
         /\ (pc = "normal_log" => green_duration = TierOf(SumValues(counts)))
         /\ ctrl' # ctrl]_vars

\* The active lane l has no snapshot: no processor exists for it, or its slot
\* still holds what the processor was built with
NoSnapshot(l) ==
    \/ l > processors
    \/ latest[l] = [counts |-> ZeroCounts, ambulance |-> FALSE]

\* C17: a normal cycle whose active lane has no snapshot counts zero vehicles
\* and takes a 15 second green without raising, and such a cycle completes:
\* it is counted and the lane after it is the active one.
C17_AbsentLaneZeroVehicles ==
    [][/\ (pc = "normal" /\ pc' # pc /\ NoSnapshot(current_lane)) =>
            /\ pc' = "normal_flag"
            /\ lane' = current_lane
            /\ SumValues(counts') = 0
       /\ (pc = "normal_flag" /\ pc' # pc /\ SumValues(counts) = 0) =>
            pc' = "normal_timing"
       /\ (pc = "normal_timing" /\ pc' # pc /\ SumValues(counts) = 0) =>
            /\ pc' = "normal_log"
            /\ green_duration' = 15
       /\ (pc = "normal_log" /\ pc' # pc /\ SumValues(counts) = 0) =>
            /\ pc' = "normal_green"
            /\ green_duration' = 15
       /\ (pc = "normal_end" /\ pc' # pc /\ NoSnapshot(lane)) =>
            /\ pc' = "loop"
            /\ cycle_count' = cycle_count + 1
            /\ served' = Append(served, 15)
            /\ current_lane' = (lane % 4) + 1]_vars

C17_Witness ==
    /\ processors = 2
    /\ pc = "loop"
    /\ last_phase = [kind |-> "normal", lane |-> 3]
    /\ current_lane = 4
    /\ served = <<30, 15, 15>>

\* The wait saved by one cycle of green duration d
WaitSaved(d) == IF 60 - d > 0 THEN 60 - d ELSE 0

RECURSIVE SumWaitSaved(_)
SumWaitSaved(ds) == IF ds = <<>> THEN 0 ELSE WaitSaved(Head(ds)) + SumWaitSaved(Tail(ds))

\* A normal cycle has accounted its wait saved and is not yet counted
CycleInProgress ==
    pc \in {"normal_log", "normal_green", "transition", "yellow", "red", "normal_reset",
            "normal_end"}

\* Each completed cycle was granted a tier's green time and contributes 0, 30
\* or 45 seconds for the 60, 30 and 15 second tiers
TierShares ==
    \A i \in 1..Len(served) :
         /\ served[i] \in {15, 30, 60}
         /\ served[i] = 60 => WaitSaved(served[i]) = 0
         /\ served[i] = 30 => WaitSaved(served[i]) = 30
         /\ served[i] = 15 => WaitSaved(served[i]) = 45

\* C19 as claimed: with no emergency, after C completed normal cycles with
\* green durations d1..dC get_statistics() reports total_cycles = C and
\* wait_time_saved = the sum of max(0, 60 - di), each cycle contributing 0, 30
\* or 45 for the 60, 30 and 15 second tiers.
C19_StatisticsOfCompletedCycles ==
    /\ get_statistics.total_cycles = Len(served)
    /\ get_statistics.wait_time_saved = SumWaitSaved(served)
    /\ TierShares

\* C19, amended: with no emergency, after C completed normal cycles with green
\* durations d1..dC get_statistics() reports total_cycles = C; wait_time_saved
\* is the sum of max(0, 60 - di) until the next cycle has computed its green
\* duration d, and from then until that cycle is counted it is that sum plus
\* max(0, 60 - d); each cycle contributes 0, 30 or 45 for the 60, 30 and 15
\* second tiers.
C19_StatisticsAfterCycles ==
    /\ get_statistics.total_cycles = Len(served)
    /\ get_statistics.wait_time_saved =
          SumWaitSaved(served) + (IF CycleInProgress THEN WaitSaved(green_duration) ELSE 0)
    /\ TierShares

\* Two cycles are completed and counted (15 s and 30 s) and the third is in
\* its green wait of 15 s: its 45 seconds are in the total already
C19_Witness ==
    /\ pc = "normal_green"
    /\ served = <<15, 30>>
    /\ green_duration = 15
    /\ get_statistics.total_cycles = 2
    /\ get_statistics.wait_time_saved = 120

\* C20: get_statistics() reports an average that is the cumulative wait saved
\* divided by the cycle count when that count is positive, and 0 when it is 0.
C20_AverageWaitSaved ==
    LET s == get_statistics
        avg == s.avg_wait_saved_per_cycle
    IN /\ avg.den > 0
       /\ s.total_cycles > 0 => avg.num * s.total_cycles = s.wait_time_saved * avg.den
       /\ s.total_cycles = 0 => avg.num = 0

C20_Witness ==
    /\ get_statistics.total_cycles = 2
    /\ get_statistics.wait_time_saved = 75
    /\ get_statistics.avg_wait_saved_per_cycle = [num |-> 75, den |-> 2]

\* C21: across every step, the cycle counter, the emergency counter and the
\* cumulative wait saved are each at least what they were: none of them
\* decreases or is reset while the scheduler runs.
C21_CountersMonotone ==
    [][/\ cycle_count' >= cycle_count
       /\ emergency_count' >= emergency_count
       /\ total_wait_time_saved' >= total_wait_time_saved]_vars

C21_Witness ==
    /\ pc = "loop"
    /\ cycle_count = 2
    /\ emergency_count = 1
    /\ total_wait_time_saved = 45

\* The scheduler is between phases: no handler has logged or accounted
\* anything that it has not yet counted as a cycle
BetweenPhases ==
    pc \in {"idle", "run_begin", "run_init", "loop", "check", "scan", "dispatch",
            "normal", "emergency", "stopped"}

\* C23: whenever the scheduler is between phases, the number of
\* log_traffic_cycle calls made equals the cycle counter, and the record of the
\* last completed phase carries the lane that phase served, the counts, the
\* ambulance flag and the mode it was run with, and the green duration granted.
C23_OneLogPerPhase ==
    BetweenPhases =>
        /\ log_count = cycle_count
        /\ Len(table) = cycle_count
        /\ last_phase.kind = "none" => (cycle_count = 0 /\ last_log = NoLog)
        /\ last_phase.kind # "none" =>
             /\ last_log.lane_id = last_phase.lane
             /\ DOMAIN last_log = {"lane_id", "vehicle_counts", "ambulance_detected",
                                   "green_duration", "signal_mode"}
        /\ last_phase.kind = "normal" =>
             /\ last_log.green_duration = served[Len(served)]
             /\ last_log.green_duration = TierOf(SumValues(last_log.vehicle_counts))
             /\ last_log.signal_mode =
                  (IF last_log.ambulance_detected THEN "EMERGENCY" ELSE "NORMAL")
        /\ last_phase.kind = "emergency" =>
             /\ last_log.green_duration = 45
             /\ last_log.ambulance_detected
             /\ last_log.signal_mode = "EMERGENCY"

C23_Witness ==
    /\ pc = "loop"
    /\ cycle_count = 2
    /\ log_count = 2
    /\ last_phase = [kind |-> "normal", lane |-> 3]
    /\ last_log.lane_id = 3
    /\ emergency_count = 1

\* C30: a lane that is GREEN goes to YELLOW and a lane that is YELLOW goes to
\* RED, never GREEN to RED; a lane turns GREEN only once the lane before it is
\* RED. After the green wait of a normal cycle on lane L the scheduler turns L
\* YELLOW, after 3 s L RED, after 2 s lane (L mod 4)+1 GREEN, and then counts
\* the cycle and leaves the mode NORMAL.
C30_TransitionSequence ==
    [][/\ \A l \in Lanes :
            /\ lane_states[l] = "GREEN" => lane_states'[l] \in {"GREEN", "YELLOW"}
            /\ lane_states[l] = "YELLOW" => lane_states'[l] \in {"YELLOW", "RED"}
            /\ (lane_states[l] = "RED" /\ lane_states'[l] = "GREEN" /\ pc # "run_init")
                 => (l = to_lane /\ lane_states[from_lane] = "RED")
       /\ (pc = "normal_green" /\ pc' # pc) =>
            /\ lane_states[lane] = "GREEN"
            /\ from_lane' = lane /\ to_lane' = (lane % 4) + 1
            /\ pc' = "transition"
       /\ (reason = "Normal Cycle" /\ pc = "transition" /\ pc' # pc) =>
            /\ lane_states' = [lane_states EXCEPT ![lane] = "YELLOW"]
            /\ pc' = "yellow"
       /\ (reason = "Normal Cycle" /\ pc = "yellow" /\ pc' # pc) =>
            /\ waited' = 3
            /\ lane_states' = [lane_states EXCEPT ![lane] = "RED"]
            /\ pc' = "red"
       /\ (reason = "Normal Cycle" /\ pc = "red" /\ pc' # pc) =>
            /\ waited' = 2
            /\ lane_states' = [lane_states EXCEPT ![(lane % 4) + 1] = "GREEN"]
            /\ pc' = "normal_reset"
       /\ (pc = "normal_reset" /\ pc' # pc) =>
            /\ mode' = "NORMAL"
            /\ lane_states' = lane_states
            /\ pc' = "normal_end"
       /\ (pc = "normal_end" /\ pc' # pc) =>
            /\ cycle_count' = entry.cycle_count + 1
            /\ mode' = "NORMAL"
            /\ pc' = "loop"
            /\ lane_states' = lane_states
            /\ NonRed(lane_states') = {(lane % 4) + 1}]_vars

C30_Witness ==
    /\ pc = "loop"
    /\ last_phase = [kind |-> "normal", lane |-> 1]
    /\ lane_states = [l \in Lanes |-> IF l = 2 THEN "GREEN" ELSE "RED"]
    /\ cycle_count = 1
    /\ mode = "NORMAL"
    /\ waited = 2

\* The slot content of an entry of the map get_all_lane_data builds
SlotOf(e) == [counts |-> e.counts, ambulance |-> e.ambulance]

\* The slot of a processor that has published nothing
InitialSlot == [counts |-> ZeroCounts, ambulance |-> FALSE]

\* C24: every get_data() result of a lane, read beside that lane's running
\* monitor, holds counts and an ambulance flag that one detection handed back
\* together, or the two initial values; a reader never sees the counts of one
\* detection with the flag of another.
C24_NoHalfWritten ==
    \A k \in 1..Len(reader.map) :
        SlotOf(reader.map[k]) \in DetectionResults \cup {InitialSlot}

\* the reader has copied a published result of lane 1 and the monitor of lane 1
\* is again in the middle of its locked write, the slot holding the counts of
\* one detection and the flag of another
C24_Witness ==
    /\ reader.op = "returned"
    /\ SlotOf(reader.map[1]) \in DetectionResults
    /\ mon_pc[1] = "writing"
    /\ latest[1] \notin DetectionResults \cup {InitialSlot}

\* The map a call of get_all_lane_data has built shows the slots as they were
\* together at instant s
MapShows(m, s) == \A k \in 1..Len(m) : SlotOf(m[k]) = s[m[k].lane_id]

\* C25 as claimed: the map get_all_lane_data returns equals the contents of all
\* four slots at one single instant of the call.
C25_SingleInstant ==
    reader.op = "returned" => \E s \in reader.instants : MapShows(reader.map, s)

\* C25: get_all_lane_data returns a copy taken slot by slot: the entry of each
\* lane equals that lane's slot at the moment the call read it (counts, flag
\* and their total), the map holds lanes 1 to 4 in order, every entry shows its
\* slot as it was at some instant of the call, and a publish made during or
\* after the call changes nothing in the entries already copied.
C25_PerSlotCopy ==
    [][/\ (reader.op = "all" /\ reader'.i = reader.i + 1) =>
            reader'.map = Append(reader.map,
                                 [lane_id |-> reader.i,
                                  counts |-> latest[reader.i].counts,
                                  ambulance |-> latest[reader.i].ambulance,
                                  total |-> SumValues(latest[reader.i].counts)])
       /\ latest' # latest => reader'.map = reader.map
       /\ reader.op = "returned" => reader'.map = reader.map
       /\ \A k \in 1..Len(reader'.map) :
            \E s \in reader'.instants : SlotOf(reader'.map[k]) = s[k]
       /\ reader'.op = "returned" =>
            /\ Len(reader'.map) = NumProcessors
            /\ \A k \in 1..NumProcessors : reader'.map[k].lane_id = k]_vars

\* a returned map whose entries were never in the slots together, with a
\* publish made after the entries were taken
C25_Witness ==
    /\ reader.op = "returned"
    /\ ~(\E s \in reader.instants : MapShows(reader.map, s))
    /\ ~MapShows(reader.map, latest)
    /\ published = MaxPublish

\* C26: when cap.read() reports the end of an opened source, the monitor sets
\* the position back to the first frame and goes back to its loop test with
\* its slot untouched: the step neither ends the thread nor raises; a monitor
\* whose flag is set goes from the loop test to the next read.
C26_RewindAndContinue ==
    [][\A p \in 1..NumProcessors :
          /\ (/\ mon_pc[p] = "detect"
              /\ mon_local[p].cap = "open" /\ mon_local[p].pos = MaxFrames
              /\ mon_pc'[p] # mon_pc[p])
               => /\ mon_pc'[p] = "loop"
                  /\ mon_local'[p] = [mon_local[p] EXCEPT !.pos = 0]
                  /\ latest'[p] = latest[p]
          /\ (mon_pc[p] = "loop" /\ mon_running[p] /\ mon_pc'[p] # mon_pc[p])
               => /\ mon_pc'[p] = "detect"
                  /\ mon_local'[p] = mon_local[p]]_vars

\* the monitor of lane 1 has published, has reached the end of its source and
\* is back at reading the first frame
C26_Witness ==
    /\ mon_pc[1] = "detect"
    /\ mon_running[1]
    /\ mon_local[1] = [OpenCapture EXCEPT !.pos = 0]
    /\ latest[1] \in DetectionResults
    /\ published = MaxPublish

\* C27 as claimed: a monitor whose video source failed to open does not enter
\* its processing loop.
C27_FailedOpenNotLooping ==
    \A p \in 1..NumProcessors :
        mon_local[p].cap = "failed" => mon_pc[p] # "detect"

\* C28 as claimed: a frame read or detection call that fails inside a monitor
\* leaves the published snapshot in place and leads to the next iteration; it
\* never ends the monitor's loop.
C28_FrameFailureSkipped ==
    [][\A p \in 1..NumProcessors :
          (mon_pc[p] = "detect" /\ mon_pc'[p] # "detect" /\ latest'[p] = latest[p])
              => mon_pc'[p] = "loop"]_vars

\* C29 as claimed: on every exit path of a monitor thread, an exit caused by
\* an exception included, the video resource has been released.
C29_ReleasedOnExit ==
    \A p \in 1..NumProcessors :
        mon_pc[p] \in {"done", "crashed"} => mon_local[p].cap = "released"

\* C22 as claimed: the values a call of get_statistics returns belong to one
\* instant of the scheduler's state, so the returned average equals the
\* returned wait_time_saved divided by the returned total_cycles (and is 0
\* when the returned total_cycles is 0).
C22_StatsOneInstant ==
    reader.op = "stats_returned" =>
        LET r == StatsResult(reader.got)
        IN r.avg_wait_saved_per_cycle =
             IF r.total_cycles > 0 THEN TrueDiv(r.wait_time_saved, r.total_cycles)
             ELSE [num |-> 0, den |-> 1]

\* C31: once handle_emergency_override has called transition_to_lane for lane
\* E, nothing redirects or cuts the transition: the active lane turns YELLOW,
\* after 3 s RED, after 2 s E turns GREEN and becomes the current lane. A
\* force_emergency call made meanwhile only fills the override slot, and the
\* slot is emptied nowhere but at the next emergency check.
C31_TransitionNotPreempted ==
    [][/\ (reason = "AMBULANCE DETECTED" /\ pc \in {"transition", "yellow", "red"}) =>
            /\ from_lane' = from_lane /\ to_lane' = to_lane
            /\ emergency_lane' = emergency_lane /\ to_lane = emergency_lane[1]
            /\ pc' = pc => lane_states' = lane_states /\ current_lane' = current_lane
            /\ pc' # pc => force_emergency_lane' = force_emergency_lane
            /\ (pc = "transition" /\ pc' # pc) =>
                 /\ lane_states' = [lane_states EXCEPT ![from_lane] = "YELLOW"]
                 /\ pc' = "yellow"
            /\ (pc = "yellow" /\ pc' # pc) =>
                 /\ waited' = 3
                 /\ lane_states' = [lane_states EXCEPT ![from_lane] = "RED"]
                 /\ pc' = "red"
            /\ (pc = "red" /\ pc' # pc) =>
                 /\ waited' = 2
                 /\ lane_states' = [lane_states EXCEPT ![emergency_lane[1]] = "GREEN"]
                 /\ current_lane' = emergency_lane[1]
                 /\ pc' = "emergency_read"
       /\ (force_emergency_lane # None /\ force_emergency_lane' = None) => pc = "check"]_vars

\* the active lane 1 is RED in the middle of the transition to emergency lane
\* 2, an override for lane 3 is pending and lane 4 reports an ambulance
C31_Witness ==
    /\ pc = "red"
    /\ reason = "AMBULANCE DETECTED"
    /\ from_lane = 1 /\ to_lane = 2
    /\ lane_states = [l \in Lanes |-> "RED"]
    /\ force_emergency_lane = Some(3)
    /\ latest[4].ambulance

\* The positions at which the scheduler thread is inside a time.sleep, the
\* 5 s of the except clause of run included
TimedWaitPcs == WaitPcs \cup {"backoff"}

\* C32: while the scheduler thread is in a timed wait (green hold, yellow,
\* transition delay, emergency green, error backoff) it does not hold the
\* controller's lock: force_emergency can run for every lane at once, and a
\* get_all_states call that has reached the lock takes it at once.
C32_LockFreeDuringWaits ==
    pc \in TimedWaitPcs =>
        /\ reader.op # "states_locked" => \A l \in ForceArgs : ENABLED force_emergency(l)
        /\ reader.op = "states" => ENABLED StatesAcquire

\* get_all_states has returned during the yellow wait of an emergency
\* transition, with the table it copied showing the active lane YELLOW
C32_Witness ==
    /\ pc = "yellow"
    /\ reason = "AMBULANCE DETECTED"
    /\ reader.op = "states_returned"
    /\ reader.map = <<lane_states>>
    /\ lane_states[from_lane] = "YELLOW"

\* The statistics of a day on which nothing has been logged
NoStats == [total_cycles |-> 0, total_vehicles |-> 0, emergency_events |-> 0,
            wait_time_saved |-> 0]

\* C33: get_today_stats counts the rows logged today: it is all zero before
\* the first row of the day, and every log call that commits raises
\* total_cycles by one, emergency_events by one exactly when the mode logged is
\* EMERGENCY, and wait_time_saved by max(0, 60 - green_duration); a call whose
\* commit fails changes nothing.
C33_TodayStats ==
    [][/\ table = <<>> => get_today_stats = NoStats
       /\ today' # today => get_today_stats' = NoStats
       /\ (today' = today /\ table' # table) =>
            LET r == table'[Len(table')]
                before == get_today_stats
            IN /\ table' = Append(table, r)
               /\ r.day = today
               /\ get_today_stats' =
                    [total_cycles |-> before.total_cycles + 1,
                     total_vehicles |-> before.total_vehicles + SumValues(r.vehicle_counts),
                     emergency_events |-> before.emergency_events +
                         (IF r.signal_mode = "EMERGENCY" THEN 1 ELSE 0),
                     wait_time_saved |-> before.wait_time_saved +
                         (IF r.green_duration < 60 THEN 60 - r.green_duration ELSE 0)]
       /\ (today' = today /\ table' = table) => get_today_stats' = get_today_stats]_vars

\* a row of yesterday and two rows of today, an emergency of 45 s and a normal
\* cycle of 90 s: two cycles, one emergency event, 15 s saved
C33_Witness ==
    /\ today = 1
    /\ Len(table) = 3
    /\ table[1].day = 0
    /\ table[2].green_duration = 45 /\ table[2].signal_mode = "EMERGENCY"
    /\ table[3].green_duration = 90 /\ table[3].signal_mode = "NORMAL"
    /\ get_today_stats.total_cycles = 2
    /\ get_today_stats.emergency_events = 1
    /\ get_today_stats.wait_time_saved = 15

\* C34 as claimed: once the scheduler has initialised, every lane that is not
\* RED is the current lane, and during a green hold of either handler the
\* current lane is GREEN.
C34_CurrentLaneServed ==
    pc \notin {"idle", "run_begin", "run_init"} =>
        /\ \A l \in DOMAIN lane_states : lane_states[l] # "RED" => l = current_lane
        /\ pc \in {"normal_green", "emergency_green"} => lane_states[current_lane] = "GREEN"

\* C35 as claimed: whatever argument force_emergency is called with,
\* current_lane stays within 1..4 and lane_states keeps exactly the keys 1, 2,
\* 3 and 4.
C35_LanesStayInRange ==
    /\ current_lane \in 1..4
    /\ DOMAIN lane_states = 1..4

\* The scheduler thread has reached the bound on cycles with the loop still on
Halted == pc = "loop" /\ running /\ cycle_count >= MaxCycles

\* C36: a manual override is never lost. The emergency check that runs with a
\* request for lane l in the slot returns l and empties the slot, whatever the
\* lanes report; a request for l made on a started controller is taken by an
\* emergency check unless a later call replaces it (stop() is never called: the
\* scheduler keeps running up to the bound on cycles); and
\* a lane the emergency check returned eventually is GREEN.
C36_OverrideNeverLost ==
    /\ [][pc = "check" /\ pc' # "check" /\ Truthy(force_emergency_lane) =>
             /\ pc' = "dispatch"
             /\ emergency_lane' = force_emergency_lane
             /\ force_emergency_lane' = None]_vars
    /\ \A l \in Lanes :
          (owed = Some(l) /\ pc # "idle")
             ~> \/ pc = "dispatch" /\ emergency_lane = Some(l) /\ owed = None
                \/ owed \notin {None, Some(l)}
                \/ Halted
    /\ \A l \in Lanes :
          (pc = "dispatch" /\ emergency_lane = Some(l)) ~> lane_states[l] = "GREEN"

\* An override for lane 4 was taken while lane 1, the active lane, and lane 2
\* reported ambulances, and lane 4 is GREEN
C36_Witness ==
    /\ pc = "emergency_log"
    /\ emergency_lane = Some(4)
    /\ lane_states[4] = "GREEN"
    /\ latest[1].ambulance /\ latest[2].ambulance
    /\ owed = None
    /\ running

\* C37: no ambulance lane starves. A lane that reports an ambulance to a
\* started controller and goes on reporting it eventually is GREEN, unless
\* the loop ends after stop() or the scheduler reaches the bound on cycles.
C37_NoAmbulanceLaneStarves ==
    \A l \in Lanes :
        (latest[l].ambulance /\ pc # "idle")
            ~> (lane_states[l] = "GREEN" \/ pc = "stopped" \/ Halted)
\* The positions of a thread inside the loop of run()
LoopPcs ==
    {"loop", "check", "scan", "dispatch", "normal", "normal_flag", "normal_count",
     "normal_timing", "normal_log", "normal_green", "transition", "yellow", "red",
     "normal_reset", "normal_end", "emergency", "emergency_read", "emergency_log",
     "emergency_green", "backoff"}

\* C38: whatever the order of the start() and stop() calls on one controller,
\* at most one thread is inside the scheduler loop at any time.
C38_OneSchedulerLoop == ~(pc \in LoopPcs /\ other.pc \in LoopPcs)
\* The scheduler thread is inside handle_emergency_override
InEmergencyHandler ==
    \/ pc \in {"emergency", "emergency_read", "emergency_log", "emergency_green"}
    \/ pc \in {"transition", "yellow", "red"} /\ reason = "AMBULANCE DETECTED"

\* The scheduler thread is inside a normal cycle that has accounted its wait
\* saved and is not yet counted
NormalCycleStarted ==
    \/ pc \in {"normal_log", "normal_green", "normal_reset", "normal_end"}
    \/ pc \in {"transition", "yellow", "red"} /\ reason = "Normal Cycle"

\* C39: an emergency episode leaves the cumulative wait saved unchanged. No
\* step of handle_emergency_override changes total_wait_time_saved, its last
\* step adds one to cycle_count, and the value get_statistics reports always is
\* the sum of max(0, 60 - green) over the normal cycles started so far,
\* whatever number of emergency episodes occurred.
C39_EmergencyKeepsWaitSaved ==
    /\ [](get_statistics.wait_time_saved =
            SumWaitSaved(served) + (IF NormalCycleStarted THEN WaitSaved(green_duration) ELSE 0))
    /\ [][InEmergencyHandler /\ pc' # pc =>
             /\ total_wait_time_saved' = total_wait_time_saved
             /\ (pc = "emergency_green" => cycle_count' = cycle_count + 1)]_vars

\* A normal cycle that saved 45 seconds and then an emergency episode have
\* completed: two cycles are counted and the wait saved still is 45
C39_Witness ==
    /\ pc = "loop"
    /\ last_phase.kind = "emergency"
    /\ served = <<15>>
    /\ cycle_count = 2
    /\ emergency_count = 1
    /\ total_wait_time_saved = 45
====
